---- MODULE Spec2Model ----
(***************************************************************************)
(* Card Snaps: the hybrid online/offline client (services/api.ts,          *)
(* class ApiService) together with the REST server it talks to (the        *)
(* express handlers over the db.data JSON document).                       *)
(*                                                                         *)
(* One step of the model is one task of a JavaScript event loop: the code  *)
(* of a client method from its call to its first `await fetch`, the code   *)
(* of a server handler between two awaits, or the continuation of a client *)
(* method after its fetch has settled.  A fetch that rejects (network      *)
(* error, abort by timeout) is the "catch" disjunct of the method.         *)
(***************************************************************************)
EXTENDS Integers, Sequences, FiniteSets, TLC

VARIABLES token, ls, online, db, now, slots, budget

vars == <<token, ls, online, db, now, slots, budget>>

(***************************************************************************)
(* Bounds of the model.                                                    *)
(***************************************************************************)
MaxSlots == 2      \* client calls that may be in flight together
MaxId == 3         \* client-supplied ids of decks, notes, tests, chats
MaxCalls == 1      \* client calls in a run of Spec
MaxPair == 2       \* client calls in a run of SpecPair
MaxSession == 2    \* client calls in a run of SpecSession
MaxCommunity == 2  \* client calls in a run of SpecCommunity
MaxStats == 2      \* client calls in a run of SpecStats
MaxOwner == 1      \* client calls in a run of SpecOwner
MaxCorrupt == 2    \* client calls in a run of SpecCorrupt
MaxSequential == 3 \* client calls in a run of SpecSequential

Slots == 1 .. MaxSlots
Ids == 1 .. MaxId
\* payloads of an item (title, content, ...; the date of a test, the
\* lastActive of a chat session)
Vals == {1, 2}
Emails == {"a@x", "b@x"}
Passwords == {"pw", "bad"}

NoToken == 0

(***************************************************************************)
(* Values.                                                                 *)
(* An owned item (deck, note, test, chat session) is a record              *)
(*   id      the client-supplied id,                                       *)
(*   val     its payload (title, description, cards, content, ...),        *)
(*   userId  the owner the server stamps on it (0: field absent),          *)
(*   at      the field the server sorts its list by: created_at (decks),   *)
(*           updated_at (notes), date (tests), lastActive (chats);         *)
(*           0 when the client has not set it.                             *)
(***************************************************************************)
ClientItem(i, v) == [id |-> i, val |-> v, userId |-> 0, at |-> 0]
DatedItem(i, v) == [id |-> i, val |-> v, userId |-> 0, at |-> v]

ClientItems == {ClientItem(i, v) : i \in Ids, v \in Vals}
DatedItems == {DatedItem(i, v) : i \in Ids, v \in Vals}

\* the three preference fields of savePreferences / PUT /api/user/preferences
Prefs == {[themeMode |-> "dark", colorScheme |-> "midnight", enableSeasonal |-> TRUE],
          [themeMode |-> "light", colorScheme |-> "ocean", enableSeasonal |-> FALSE]}
DefaultPrefs == [themeMode |-> "dark", colorScheme |-> "midnight", enableSeasonal |-> TRUE]

\* a slot of localStorage: absent, or holding a (JSON) value
Absent == [st |-> "absent", v |-> <<>>]
Stored(v) == [st |-> "ok", v |-> v]

\* a slot whose text JSON.parse rejects
Garbled == [st |-> "garbled", v |-> <<>>]

\* what JSON.parse gives for a text that is JSON and no array (null, {}, 0,
\* "x"); it stands in a one-element tuple so that it compares with lists
NotAList == <<[json |-> "no array"]>>

KEYS == {"USER", "TOKEN", "DECKS", "NOTES", "TESTS", "STATS", "CHATS", "COMMUNITY"}

(***************************************************************************)
(* Sequence helpers (Array.prototype.filter / findIndex / sort).           *)
(***************************************************************************)
\* l.splice(l.findIndex(x => x.id === id), 1): the first match is removed, the
\* last element when there is no match
FilterOutSplice(l, id) ==
    IF \E k \in 1 .. Len(l) : l[k].id = id
    THEN LET k == CHOOSE j \in 1 .. Len(l) :
                     l[j].id = id /\ \A i \in 1 .. (j - 1) : l[i].id # id
         IN SubSeq(l, 1, k - 1) \o SubSeq(l, k + 1, Len(l))
    ELSE SubSeq(l, 1, Len(l) - 1)

RECURSIVE FilterOut(_, _)
\* l.filter(x => x.id !== id)
FilterOut(l, id) ==
    IF l = <<>> THEN <<>>
    ELSE IF Head(l).id = id THEN FilterOut(Tail(l), id)
         ELSE <<Head(l)>> \o FilterOut(Tail(l), id)

RECURSIVE FilterOwner(_, _)
\* l.filter(x => x.userId === uid)
FilterOwner(l, uid) ==
    IF l = <<>> THEN <<>>
    ELSE IF Head(l).userId = uid THEN <<Head(l)>> \o FilterOwner(Tail(l), uid)
         ELSE FilterOwner(Tail(l), uid)

RECURSIVE FilterOutOwned(_, _, _)
\* l.filter(x => !(x.id === id && x.userId === uid))
FilterOutOwned(l, id, uid) ==
    IF l = <<>> THEN <<>>
    ELSE IF Head(l).id = id /\ Head(l).userId = uid
         THEN FilterOutOwned(Tail(l), id, uid)
         ELSE <<Head(l)>> \o FilterOutOwned(Tail(l), id, uid)

\* l.findIndex(x => x.id === id), 0 for -1
FindIndex(l, id) ==
    IF \E k \in 1 .. Len(l) : l[k].id = id
    THEN CHOOSE k \in 1 .. Len(l) :
            /\ l[k].id = id
            /\ \A j \in 1 .. (k - 1) : l[j].id # id
    ELSE 0

\* a lookup by id alone: l.findIndex(x => x.id === id)
FindOwnedAny(l, id, uid) == FindIndex(l, id)

\* l.findIndex(x => x.id === id && x.userId === uid), 0 for -1
FindOwned(l, id, uid) ==
    IF \E k \in 1 .. Len(l) : l[k].id = id /\ l[k].userId = uid
    THEN CHOOSE k \in 1 .. Len(l) :
            /\ l[k].id = id /\ l[k].userId = uid
            /\ \A j \in 1 .. (k - 1) : ~(l[j].id = id /\ l[j].userId = uid)
    ELSE 0

RECURSIVE InsertDesc(_, _)
\* x goes behind every element whose key is not smaller (stable sort)
InsertDesc(x, l) ==
    IF l = <<>> THEN <<x>>
    ELSE IF Head(l).at >= x.at THEN <<Head(l)>> \o InsertDesc(x, Tail(l))
         ELSE <<x>> \o l

RECURSIVE SortDesc(_)
\* l.sort((a, b) => b.at - a.at)
SortDesc(l) ==
    IF l = <<>> THEN <<>>
    ELSE InsertDesc(l[Len(l)], SortDesc(SubSeq(l, 1, Len(l) - 1)))

RECURSIVE InsertAsc(_, _)
InsertAsc(x, l) ==
    IF l = <<>> THEN <<x>>
    ELSE IF Head(l).at <= x.at THEN <<Head(l)>> \o InsertAsc(x, Tail(l))
         ELSE <<x>> \o l

RECURSIVE SortAsc(_)
\* l.sort((a, b) => a.at - b.at)
SortAsc(l) ==
    IF l = <<>> THEN <<>>
    ELSE InsertAsc(l[Len(l)], SortAsc(SubSeq(l, 1, Len(l) - 1)))

\* number of elements of l with the given id
CountId(l, id) == Cardinality({k \in 1 .. Len(l) : l[k].id = id})

(***************************************************************************)
(* Client: local storage helpers and session.                              *)
(***************************************************************************)
\* isOnline that never reports offline
isOnlineAlways(o) == TRUE

\* navigator.onLine as seen by the client
isOnline(o) == o

\* getLocal(key, defaultVal): the parsed value, the default for a missing
\* slot or one that does not parse
getLocal(store, key, defaultVal) ==
    IF store[key].st = "ok" THEN store[key].v ELSE defaultVal

\* unshift, findIndex and filter are called on what getLocal returned: on a
\* value that is no array the call throws a TypeError, outside every try
\* block, and the method rejects before its setLocal
throws(store, key) == getLocal(store, key, <<>>) = NotAList

\* how a method ends whose code after the try block works on the list of key
Outcome(store, key) == IF throws(store, key) THEN "rejected" ELSE "resolved"

\* setLocal(key, value)
setLocal(store, key, value) == [store EXCEPT ![key] = Stored(value)]

\* localStorage.removeItem(key)
removeItem(store, key) == [store EXCEPT ![key] = Absent]

isAuthenticated == token # NoToken

\* the guard without its test of the token
UseRemoteNoToken == isOnline(online)

\* the guard `this.token && this.isOnline()` of the owned-data methods
UseRemote == token # NoToken /\ isOnline(online)

(***************************************************************************)
(* Client calls in flight.  A slot holds one call of a client method:      *)
(*   op, arg   the method and its argument,                                *)
(*   pc        "done"    no call, or the call has run to its end,          *)
(*             "sent"    the request is on its way to the server,          *)
(*             "hash"    the register handler awaits bcrypt.hash,          *)
(*             "replied" the server has answered, the client has not yet   *)
(*                       resumed,                                          *)
(*   hdr       the bearer token of the request (getHeaders at the call),   *)
(*   ok, body  res.ok and the body of the response,                        *)
(*   err       the fetch rejected (network error, abort),                  *)
(*   st, ret   how the promise of the method settled: "pending",           *)
(*             "resolved" with value ret (a sequence: <<>> is null/void),  *)
(*             "rejected",                                                 *)
(*   net       the call has issued a fetch.                                *)
(***************************************************************************)
NoCall == [op |-> "none", arg |-> <<>>, pc |-> "done", hdr |-> NoToken,
           ok |-> FALSE, body |-> <<>>, err |-> FALSE, st |-> "resolved",
           ret |-> <<>>, net |-> FALSE]

\* a call may start in slot s: the slot is free and so are no later ones only
Free(s) ==
    /\ budget > 0
    /\ slots[s].pc = "done"
    /\ \A r \in Slots : r < s => slots[r].pc # "done"

\* the method issues a fetch and suspends
Send(s, o, a, h) ==
    /\ slots' = [slots EXCEPT ![s] =
                   [op |-> o, arg |-> a, pc |-> "sent", hdr |-> h, ok |-> FALSE,
                    body |-> <<>>, err |-> FALSE, st |-> "pending", ret |-> <<>>,
                    net |-> TRUE]]
    /\ budget' = budget - 1

\* the method runs to its end without a fetch
Local(s, o, a, state, r) ==
    /\ slots' = [slots EXCEPT ![s] =
                   [op |-> o, arg |-> a, pc |-> "done", hdr |-> NoToken, ok |-> FALSE,
                    body |-> <<>>, err |-> FALSE, st |-> state, ret |-> r,
                    net |-> FALSE]]
    /\ budget' = budget - 1

\* the fetch of slot s has resolved with a response
Replied(s, o) == slots[s].pc = "replied" /\ slots[s].op = o

\* the fetch of slot s rejects: the request or the response is lost, or the
\* request is aborted
Failed(s, o) == slots[s].pc \in {"sent", "replied"} /\ slots[s].op = o

\* the fetch of slot s settles: it rejects (e) or resolves with a response
Resumed(s, o, e) == IF e THEN Failed(s, o) ELSE Replied(s, o)

\* the method resumes after its fetch and runs to its end; the request and
\* the response are dropped
Settle(s, state, r) ==
    /\ slots' = [slots EXCEPT ![s].pc = "done", ![s].st = state, ![s].ret = r,
                              ![s].hdr = NoToken, ![s].body = <<>>]
    /\ budget' = budget

\* a catch block that throws the error on
CaughtRethrow(s, state, r) ==
    /\ slots' = [slots EXCEPT ![s].pc = "done", ![s].st = "rejected", ![s].ret = <<>>,
                              ![s].hdr = NoToken, ![s].body = <<>>,
                              ![s].ok = FALSE, ![s].err = TRUE]
    /\ budget' = budget

\* the same, entered through the catch block of the method
Caught(s, state, r) ==
    /\ slots' = [slots EXCEPT ![s].pc = "done", ![s].st = state, ![s].ret = r,
                              ![s].hdr = NoToken, ![s].body = <<>>,
                              ![s].ok = FALSE, ![s].err = TRUE]
    /\ budget' = budget

\* a method without a catch block: a rejected fetch rejects the method
FinishThrows(s, e, state, r) ==
    IF e THEN CaughtRethrow(s, state, r) ELSE Settle(s, state, r)

\* the end of a method whose code after the try block is the same whether
\* the fetch resolved or rejected
Finish(s, e, state, r) == IF e THEN Caught(s, state, r) ELSE Settle(s, state, r)

\* the server handler of the request in slot s answers
Arrived(s, o) == slots[s].pc = "sent" /\ slots[s].op = o

Reply(s, isOk, b) ==
    /\ slots' = [slots EXCEPT ![s].pc = "replied", ![s].ok = isOk, ![s].body = b]
    /\ budget' = budget

\* authenticateToken: the handler runs only for a verified bearer token
authenticateToken(h) == h # NoToken

(***************************************************************************)
(* AUTH, client side.                                                      *)
(***************************************************************************)
\* a login that keeps the credential and not the profile
storeSessionTokenOnly(store, data) == setLocal(store, "TOKEN", data.token)

\* a login that keeps the credential in memory and persists the profile alone
storeSessionProfileOnly(store, data) == setLocal(store, "USER", data.user)

\* what login and register do with a successful response
storeSession(store, data) ==
    setLocal(setLocal(store, "TOKEN", data.token), "USER", data.user)

\* a login that signs the present user out before it asks the server
loginSignsOutFirst(s) ==
    \/ \E e \in Emails, p \in Passwords :
          /\ Free(s)
          /\ IF ~isOnline(online)
             THEN /\ Local(s, "login", <<e, p>>, "rejected", <<>>)
                  /\ UNCHANGED <<token, ls>>
             ELSE /\ Send(s, "login", <<e, p>>, NoToken)
                  /\ token' = NoToken
                  /\ ls' = removeItem(removeItem(ls, "TOKEN"), "USER")
          /\ UNCHANGED <<online, db, now>>
    \/ /\ Replied(s, "login")
       /\ IF ~slots[s].ok
          THEN /\ Settle(s, "rejected", <<>>)
               /\ UNCHANGED <<token, ls>>
          ELSE /\ token' = slots[s].body[1].token
               /\ ls' = storeSession(ls, slots[s].body[1])
               /\ Settle(s, "resolved", <<slots[s].body[1].user>>)
       /\ UNCHANGED <<online, db, now>>
    \/ /\ Failed(s, "login")
       /\ Caught(s, "rejected", <<>>)
       /\ UNCHANGED <<token, ls, online, db, now>>

login(s) ==
    \/ \E e \in Emails, p \in Passwords :
          /\ Free(s)
          /\ IF ~isOnline(online)
             THEN Local(s, "login", <<e, p>>, "rejected", <<>>)
             ELSE Send(s, "login", <<e, p>>, NoToken)
          /\ UNCHANGED <<token, ls, online, db, now>>
    \/ /\ Replied(s, "login")
       /\ IF ~slots[s].ok
          THEN /\ Settle(s, "rejected", <<>>)
               /\ UNCHANGED <<token, ls>>
          ELSE /\ token' = slots[s].body[1].token
               /\ ls' = storeSession(ls, slots[s].body[1])
               /\ Settle(s, "resolved", <<slots[s].body[1].user>>)
       /\ UNCHANGED <<online, db, now>>
    \/ /\ Failed(s, "login")
       /\ Caught(s, "rejected", <<>>)
       /\ UNCHANGED <<token, ls, online, db, now>>

register(s) ==
    \/ \E e \in Emails, p \in Passwords :
          /\ Free(s)
          /\ IF ~isOnline(online)
             THEN Local(s, "register", <<e, p>>, "rejected", <<>>)
             ELSE Send(s, "register", <<e, p>>, NoToken)
          /\ UNCHANGED <<token, ls, online, db, now>>
    \/ /\ Replied(s, "register")
       /\ IF ~slots[s].ok
          THEN /\ Settle(s, "rejected", <<>>)
               /\ UNCHANGED <<token, ls>>
          ELSE /\ token' = slots[s].body[1].token
               /\ ls' = storeSession(ls, slots[s].body[1])
               /\ Settle(s, "resolved", <<slots[s].body[1].user>>)
       /\ UNCHANGED <<online, db, now>>
    \/ /\ Failed(s, "register")
       /\ Caught(s, "rejected", <<>>)
       /\ UNCHANGED <<token, ls, online, db, now>>

\* a logout that empties localStorage (localStorage.clear())
logoutWipe(s) ==
    /\ Free(s)
    /\ token' = NoToken
    /\ ls' = [k \in KEYS |-> Absent]
    /\ Local(s, "logout", <<>>, "resolved", <<>>)
    /\ UNCHANGED <<online, db, now>>

logout(s) ==
    /\ Free(s)
    /\ token' = NoToken
    /\ ls' = removeItem(removeItem(ls, "TOKEN"), "USER")
    /\ Local(s, "logout", <<>>, "resolved", <<>>)
    /\ UNCHANGED <<online, db, now>>

(***************************************************************************)
(* AUTH, server side.                                                      *)
(***************************************************************************)
\* bcrypt.hash / bcrypt.compare
hash(p) == [bcrypt |-> p]
compare(p, h) == h = [bcrypt |-> p]

\* const { password: _, ...userSafe } = user
userSafe(u) == [f \in DOMAIN u \ {"password"} |-> u[f]]

\* jwt.sign({ id, email }, SECRET_KEY): the token stands for the user id
sign(u) == u.id

FindEmail(users, e) ==
    IF \E k \in 1 .. Len(users) : users[k].email = e
    THEN CHOOSE k \in 1 .. Len(users) :
            /\ users[k].email = e
            /\ \A j \in 1 .. (k - 1) : users[j].email # e
    ELSE 0

FindUser(users, uid) ==
    IF \E k \in 1 .. Len(users) : users[k].id = uid
    THEN CHOOSE k \in 1 .. Len(users) :
            /\ users[k].id = uid
            /\ \A j \in 1 .. (k - 1) : users[j].id # uid
    ELSE 0

\* the check of POST /api/auth/register before the password is hashed
emailTaken(users, e) == FindEmail(users, e) # 0

\* POST /api/auth/register, up to `await bcrypt.hash`
post_register_check(s) ==
    /\ Arrived(s, "register")
    /\ IF emailTaken(db.users, slots[s].arg[1])
       THEN Reply(s, FALSE, <<>>)
       ELSE /\ slots' = [slots EXCEPT ![s].pc = "hash"]
            /\ budget' = budget
    /\ UNCHANGED <<token, ls, online, db, now>>

\* the user record register makes; generateUUID gives the new user an id no
\* other user has
newUser(d, email, password) ==
    [id |-> Len(d.users) + 1, email |-> email, password |-> hash(password),
     themeMode |-> DefaultPrefs.themeMode,
     colorScheme |-> DefaultPrefs.colorScheme,
     enableSeasonal |-> DefaultPrefs.enableSeasonal]

\* db.data.users.push(newUser); db.data.stats.push({ userId, xp: 0, ... })
postRegister(d, email, password) ==
    [d EXCEPT !.users = Append(@, newUser(d, email, password)),
              !.stats = Append(@, [userId |-> newUser(d, email, password).id,
                                   xp |-> 0, goals |-> 0])]

\* POST /api/auth/register, after `await bcrypt.hash`
post_register_insert(s) ==
    /\ slots[s].pc = "hash"
    /\ db' = postRegister(db, slots[s].arg[1], slots[s].arg[2])
    /\ Reply(s, TRUE, <<[token |-> sign(newUser(db, slots[s].arg[1], slots[s].arg[2])),
                         user |-> userSafe(newUser(db, slots[s].arg[1], slots[s].arg[2]))]>>)
    /\ now' = now + 1
    /\ UNCHANGED <<token, ls, online>>

\* POST /api/auth/login
post_login(s) ==
    /\ Arrived(s, "login")
    /\ LET k == FindEmail(db.users, slots[s].arg[1])
       IN IF k = 0 THEN Reply(s, FALSE, <<>>)
          ELSE IF compare(slots[s].arg[2], db.users[k].password)
               THEN Reply(s, TRUE, <<[token |-> sign(db.users[k]),
                                      user |-> userSafe(db.users[k])]>>)
               ELSE Reply(s, FALSE, <<>>)
    /\ UNCHANGED <<token, ls, online, db, now>>

(***************************************************************************)
(* DECKS, client side.                                                     *)
(***************************************************************************)
\* decks.unshift(deck)
createDeckLocal(decks, deck) == <<deck>> \o decks

\* the code of createDeck after the try block
createDeckStore(store, deck) ==
    IF throws(store, "DECKS") THEN store
    ELSE setLocal(store, "DECKS", createDeckLocal(getLocal(store, "DECKS", <<>>), deck))

\* decks[index] = deck
updateDeckLocal(decks, deck) == [decks EXCEPT ![FindIndex(decks, deck.id)] = deck]

\* the code of updateDeck after the try block: writes only when the id is found
updateDeckStore(store, deck) ==
    IF throws(store, "DECKS") THEN store
    ELSE IF FindIndex(getLocal(store, "DECKS", <<>>), deck.id) # 0
    THEN setLocal(store, "DECKS", updateDeckLocal(getLocal(store, "DECKS", <<>>), deck))
    ELSE store

\* the code of deleteDeck after the try block
deleteDeckStore(store, id) ==
    IF throws(store, "DECKS") THEN store
    ELSE setLocal(store, "DECKS", FilterOut(getLocal(store, "DECKS", <<>>), id))

\* what getDecks does with a successful response
getDecksStore(store, decks) == setLocal(store, "DECKS", decks)

getDecks(s) ==
    \/ /\ Free(s)
       /\ IF UseRemote
          THEN Send(s, "getDecks", <<>>, token)
          ELSE Local(s, "getDecks", <<>>, "resolved", getLocal(ls, "DECKS", <<>>))
       /\ UNCHANGED <<token, ls, online, db, now>>
    \/ /\ Replied(s, "getDecks")
       /\ IF slots[s].ok
          THEN /\ ls' = getDecksStore(ls, slots[s].body)
               /\ Settle(s, "resolved", slots[s].body)
          ELSE /\ Settle(s, "resolved", getLocal(ls, "DECKS", <<>>))
               /\ UNCHANGED ls
       /\ UNCHANGED <<token, online, db, now>>
    \/ /\ Failed(s, "getDecks")
       /\ Caught(s, "resolved", getLocal(ls, "DECKS", <<>>))
       /\ UNCHANGED <<token, ls, online, db, now>>

createDeck(s) ==
    \/ \E deck \in ClientItems :
          /\ Free(s)
          /\ IF UseRemote
             THEN /\ Send(s, "createDeck", <<deck>>, token)
                  /\ UNCHANGED ls
             ELSE /\ ls' = createDeckStore(ls, deck)
                  /\ Local(s, "createDeck", <<deck>>, Outcome(ls, "DECKS"),
                           IF throws(ls, "DECKS") THEN <<>> ELSE <<deck>>)
          /\ UNCHANGED <<token, online, db, now>>
    \/ \E e \in BOOLEAN :
          /\ Resumed(s, "createDeck", e)
          /\ ls' = createDeckStore(ls, slots[s].arg[1])
          /\ Finish(s, e, Outcome(ls, "DECKS"),
                    IF throws(ls, "DECKS") THEN <<>> ELSE slots[s].arg)
          /\ UNCHANGED <<token, online, db, now>>

updateDeck(s) ==
    \/ \E deck \in ClientItems :
          /\ Free(s)
          /\ IF UseRemote
             THEN /\ Send(s, "updateDeck", <<deck>>, token)
                  /\ UNCHANGED ls
             ELSE /\ ls' = updateDeckStore(ls, deck)
                  /\ Local(s, "updateDeck", <<deck>>, Outcome(ls, "DECKS"), <<>>)
          /\ UNCHANGED <<token, online, db, now>>
    \/ \E e \in BOOLEAN :
          /\ Resumed(s, "updateDeck", e)
          /\ ls' = updateDeckStore(ls, slots[s].arg[1])
          /\ Finish(s, e, Outcome(ls, "DECKS"), <<>>)
          /\ UNCHANGED <<token, online, db, now>>

deleteDeck(s) ==
    \/ \E id \in Ids :
          /\ Free(s)
          /\ IF UseRemote
             THEN /\ Send(s, "deleteDeck", <<id>>, token)
                  /\ UNCHANGED ls
             ELSE /\ ls' = deleteDeckStore(ls, id)
                  /\ Local(s, "deleteDeck", <<id>>, Outcome(ls, "DECKS"), <<>>)
          /\ UNCHANGED <<token, online, db, now>>
    \/ \E e \in BOOLEAN :
          /\ Resumed(s, "deleteDeck", e)
          /\ ls' = deleteDeckStore(ls, slots[s].arg[1])
          /\ Finish(s, e, Outcome(ls, "DECKS"), <<>>)
          /\ UNCHANGED <<token, online, db, now>>

(***************************************************************************)
(* DECKS, server side.                                                     *)
(***************************************************************************)
\* GET /api/decks
get_decks(s) ==
    /\ Arrived(s, "getDecks")
    /\ IF authenticateToken(slots[s].hdr)
       THEN Reply(s, TRUE, SortDesc(FilterOwner(db.decks, slots[s].hdr)))
       ELSE Reply(s, FALSE, <<>>)
    /\ UNCHANGED <<token, ls, online, db, now>>

\* a server that gives every new deck an id of its own (generateUUID())
newDeckOwnId(uid, deck, t) ==
    [id |-> MaxId + 1, userId |-> uid, val |-> deck.val, at |-> t]

\* { ...req.body, userId: req.user.id, created_at: Date.now() }
newDeck(uid, deck, t) == [id |-> deck.id, userId |-> uid, val |-> deck.val, at |-> t]

\* db.data.decks.unshift(newDeck)
postDeck(d, uid, deck, t) == [d EXCEPT !.decks = <<newDeck(uid, deck, t)>> \o @]

\* POST /api/decks
post_decks(s) ==
    /\ Arrived(s, "createDeck")
    /\ IF authenticateToken(slots[s].hdr)
       THEN /\ db' = postDeck(db, slots[s].hdr, slots[s].arg[1], now)
            /\ now' = now + 1
            /\ Reply(s, TRUE, <<newDeck(slots[s].hdr, slots[s].arg[1], now)>>)
       ELSE /\ Reply(s, FALSE, <<>>)
            /\ UNCHANGED <<db, now>>
    /\ UNCHANGED <<token, ls, online>>

\* PUT /api/decks/:id
put_decks(s) ==
    /\ Arrived(s, "updateDeck")
    /\ LET k == FindOwned(db.decks, slots[s].arg[1].id, slots[s].hdr)
       IN IF authenticateToken(slots[s].hdr) /\ k # 0
          THEN /\ db' = [db EXCEPT !.decks[k].val = slots[s].arg[1].val]
               /\ Reply(s, TRUE, <<>>)
          ELSE /\ Reply(s, FALSE, <<>>)
               /\ UNCHANGED db
    /\ UNCHANGED <<token, ls, online, now>>

\* DELETE /api/decks/:id
delete_decks(s) ==
    /\ Arrived(s, "deleteDeck")
    /\ LET rest == FilterOutOwned(db.decks, slots[s].arg[1], slots[s].hdr)
       IN IF authenticateToken(slots[s].hdr) /\ Len(rest) # Len(db.decks)
          THEN /\ db' = [db EXCEPT !.decks = rest]
               /\ Reply(s, TRUE, <<>>)
          ELSE /\ Reply(s, FALSE, <<>>)
               /\ UNCHANGED db
    /\ UNCHANGED <<token, ls, online, now>>

(***************************************************************************)
(* PROFILE, client and server side.                                        *)
(***************************************************************************)
\* a profile made of the three preference fields alone
withPreferencesOnly(current, p) == p

\* { ...current, themeMode, colorScheme, enableSeasonal }
withPreferences(current, p) == p @@ current

\* the local part of savePreferences
savePreferencesStore(store, p) ==
    setLocal(store, "USER", withPreferences(getLocal(store, "USER", <<>>), p))

\* getLocal(KEYS.USER, null) as a result
localUser(store) ==
    IF store["USER"].st = "ok" THEN <<store["USER"].v>> ELSE <<>>

getMe(s) ==
    \/ /\ Free(s)
       /\ IF UseRemote
          THEN Send(s, "getMe", <<>>, token)
          ELSE Local(s, "getMe", <<>>, "resolved", localUser(ls))
       /\ UNCHANGED <<token, ls, online, db, now>>
    \/ /\ Replied(s, "getMe")
       /\ IF slots[s].ok
          THEN /\ ls' = setLocal(ls, "USER", slots[s].body[1])
               /\ Settle(s, "resolved", slots[s].body)
          ELSE /\ Settle(s, "resolved", localUser(ls))
               /\ UNCHANGED ls
       /\ UNCHANGED <<token, online, db, now>>
    \/ /\ Failed(s, "getMe")
       /\ Caught(s, "resolved", localUser(ls))
       /\ UNCHANGED <<token, ls, online, db, now>>

\* the fetch of savePreferences is not awaited: the method writes the local
\* profile and resolves at once, the request stays in flight
savePreferences(s) ==
    \/ \E p \in Prefs :
          /\ Free(s)
          /\ ls' = savePreferencesStore(ls, p)
          /\ IF UseRemote
             THEN /\ slots' = [slots EXCEPT ![s] =
                                 [op |-> "savePreferences", arg |-> <<p>>, pc |-> "sent",
                                  hdr |-> token, ok |-> FALSE, body |-> <<>>, err |-> FALSE,
                                  st |-> "resolved", ret |-> <<>>, net |-> TRUE]]
                  /\ budget' = budget - 1
             ELSE Local(s, "savePreferences", <<p>>, "resolved", <<>>)
          /\ UNCHANGED <<token, online, db, now>>
    \/ \E e \in BOOLEAN :
          /\ Resumed(s, "savePreferences", e)
          /\ Finish(s, e, "resolved", <<>>)
          /\ UNCHANGED <<token, ls, online, db, now>>

\* GET /api/auth/me
get_me(s) ==
    /\ Arrived(s, "getMe")
    /\ LET k == FindUser(db.users, slots[s].hdr)
       IN IF authenticateToken(slots[s].hdr) /\ k # 0
          THEN Reply(s, TRUE, <<userSafe(db.users[k])>>)
          ELSE Reply(s, FALSE, <<>>)
    /\ UNCHANGED <<token, ls, online, db, now>>

\* PUT /api/user/preferences
put_preferences(s) ==
    /\ Arrived(s, "savePreferences")
    /\ LET k == FindUser(db.users, slots[s].hdr)
       IN IF authenticateToken(slots[s].hdr) /\ k # 0
          THEN /\ db' = [db EXCEPT !.users[k] = slots[s].arg[1] @@ @]
               /\ Reply(s, TRUE, <<>>)
          ELSE /\ Reply(s, FALSE, <<>>)
               /\ UNCHANGED db
    /\ UNCHANGED <<token, ls, online, now>>

(***************************************************************************)
(* NOTES.                                                                  *)
(***************************************************************************)
\* an upsert that writes the new item alone
upsertLocalAlone(l, item) == <<item>>

\* an upsert that appends a new item instead of putting it first
upsertLocalPush(l, item) ==
    IF FindIndex(l, item.id) # 0
    THEN [l EXCEPT ![FindIndex(l, item.id)] = item]
    ELSE Append(l, item)

\* if (index !== -1) l[index] = item; else l.unshift(item)
upsertLocal(l, item) ==
    IF FindIndex(l, item.id) # 0
    THEN [l EXCEPT ![FindIndex(l, item.id)] = item]
    ELSE <<item>> \o l

\* the code of saveNote after the try block
saveNoteStore(store, note) ==
    setLocal(store, "NOTES", upsertLocal(getLocal(store, "NOTES", <<>>), note))

\* the code of deleteNote after the try block
deleteNoteStore(store, id) ==
    setLocal(store, "NOTES", FilterOut(getLocal(store, "NOTES", <<>>), id))

\* a read that keeps the mirrored notes the response does not have
getNotesStoreKeep(store, notes) ==
    setLocal(store, "NOTES",
             notes \o SelectSeq(getLocal(store, "NOTES", <<>>),
                                LAMBDA x : FindIndex(notes, x.id) = 0))

\* what getNotes does with a successful response
getNotesStore(store, notes) == setLocal(store, "NOTES", notes)

getNotes(s) ==
    \/ /\ Free(s)
       /\ IF UseRemote
          THEN Send(s, "getNotes", <<>>, token)
          ELSE Local(s, "getNotes", <<>>, "resolved", getLocal(ls, "NOTES", <<>>))
       /\ UNCHANGED <<token, ls, online, db, now>>
    \/ /\ Replied(s, "getNotes")
       /\ IF slots[s].ok
          THEN /\ ls' = getNotesStore(ls, slots[s].body)
               /\ Settle(s, "resolved", slots[s].body)
          ELSE /\ Settle(s, "resolved", getLocal(ls, "NOTES", <<>>))
               /\ UNCHANGED ls
       /\ UNCHANGED <<token, online, db, now>>
    \/ /\ Failed(s, "getNotes")
       /\ Caught(s, "resolved", getLocal(ls, "NOTES", <<>>))
       /\ UNCHANGED <<token, ls, online, db, now>>

saveNote(s) ==
    \/ \E note \in ClientItems :
          /\ Free(s)
          /\ IF UseRemote
             THEN /\ Send(s, "saveNote", <<note>>, token)
                  /\ UNCHANGED ls
             ELSE /\ ls' = saveNoteStore(ls, note)
                  /\ Local(s, "saveNote", <<note>>, "resolved", <<note>>)
          /\ UNCHANGED <<token, online, db, now>>
    \/ \E e \in BOOLEAN :
          /\ Resumed(s, "saveNote", e)
          /\ ls' = saveNoteStore(ls, slots[s].arg[1])
          /\ Finish(s, e, "resolved", slots[s].arg)
          /\ UNCHANGED <<token, online, db, now>>

deleteNote(s) ==
    \/ \E id \in Ids :
          /\ Free(s)
          /\ IF UseRemote
             THEN /\ Send(s, "deleteNote", <<id>>, token)
                  /\ UNCHANGED ls
             ELSE /\ ls' = deleteNoteStore(ls, id)
                  /\ Local(s, "deleteNote", <<id>>, "resolved", <<>>)
          /\ UNCHANGED <<token, online, db, now>>
    \/ \E e \in BOOLEAN :
          /\ Resumed(s, "deleteNote", e)
          /\ ls' = deleteNoteStore(ls, slots[s].arg[1])
          /\ Finish(s, e, "resolved", <<>>)
          /\ UNCHANGED <<token, online, db, now>>

\* GET /api/notes
get_notes(s) ==
    /\ Arrived(s, "getNotes")
    /\ IF authenticateToken(slots[s].hdr)
       THEN Reply(s, TRUE, SortDesc(FilterOwner(db.notes, slots[s].hdr)))
       ELSE Reply(s, FALSE, <<>>)
    /\ UNCHANGED <<token, ls, online, db, now>>

\* the caller's note with that id is updated, or a new one is unshifted
postNote(d, uid, note, t) ==
    LET k == FindOwned(d.notes, note.id, uid)
        new == [id |-> note.id, userId |-> uid, val |-> note.val, at |-> t]
    IN IF k # 0
       THEN [d EXCEPT !.notes[k].val = note.val, !.notes[k].at = t]
       ELSE [d EXCEPT !.notes = <<new>> \o @]

\* POST /api/notes
post_notes(s) ==
    /\ Arrived(s, "saveNote")
    /\ IF authenticateToken(slots[s].hdr)
       THEN /\ db' = postNote(db, slots[s].hdr, slots[s].arg[1], now)
            /\ now' = now + 1
            /\ Reply(s, TRUE, slots[s].arg)
       ELSE /\ Reply(s, FALSE, <<>>)
            /\ UNCHANGED <<db, now>>
    /\ UNCHANGED <<token, ls, online>>

\* DELETE /api/notes/:id
delete_notes(s) ==
    /\ Arrived(s, "deleteNote")
    /\ IF authenticateToken(slots[s].hdr)
       THEN /\ db' = [db EXCEPT !.notes = FilterOutOwned(@, slots[s].arg[1], slots[s].hdr)]
            /\ Reply(s, TRUE, <<>>)
       ELSE /\ Reply(s, FALSE, <<>>)
            /\ UNCHANGED db
    /\ UNCHANGED <<token, ls, online, now>>

(***************************************************************************)
(* TESTS.                                                                  *)
(***************************************************************************)
\* tests.push(test)
addTestLocal(tests, test) == Append(tests, test)

\* the code of addTest after the try block
addTestStore(store, test) ==
    setLocal(store, "TESTS", addTestLocal(getLocal(store, "TESTS", <<>>), test))

\* a delete that drops the last item: tests.pop()
deleteTestStorePop(store, id) ==
    setLocal(store, "TESTS",
             SubSeq(getLocal(store, "TESTS", <<>>), 1,
                    Len(getLocal(store, "TESTS", <<>>)) - 1))

\* the code of deleteTest after the try block
deleteTestStore(store, id) ==
    setLocal(store, "TESTS", FilterOut(getLocal(store, "TESTS", <<>>), id))

\* what getTests does with a successful response: it returns it and stores
\* nothing
getTestsStore(store, tests) == store

getTests(s) ==
    \/ /\ Free(s)
       /\ IF UseRemote
          THEN Send(s, "getTests", <<>>, token)
          ELSE Local(s, "getTests", <<>>, "resolved", getLocal(ls, "TESTS", <<>>))
       /\ UNCHANGED <<token, ls, online, db, now>>
    \/ /\ Replied(s, "getTests")
       /\ IF slots[s].ok
          THEN /\ ls' = getTestsStore(ls, slots[s].body)
               /\ Settle(s, "resolved", slots[s].body)
          ELSE /\ Settle(s, "resolved", getLocal(ls, "TESTS", <<>>))
               /\ UNCHANGED ls
       /\ UNCHANGED <<token, online, db, now>>
    \/ /\ Failed(s, "getTests")
       /\ Caught(s, "resolved", getLocal(ls, "TESTS", <<>>))
       /\ UNCHANGED <<token, ls, online, db, now>>

addTest(s) ==
    \/ \E test \in DatedItems :
          /\ Free(s)
          /\ IF UseRemote
             THEN /\ Send(s, "addTest", <<test>>, token)
                  /\ UNCHANGED ls
             ELSE /\ ls' = addTestStore(ls, test)
                  /\ Local(s, "addTest", <<test>>, "resolved", <<test>>)
          /\ UNCHANGED <<token, online, db, now>>
    \/ \E e \in BOOLEAN :
          /\ Resumed(s, "addTest", e)
          /\ ls' = addTestStore(ls, slots[s].arg[1])
          /\ Finish(s, e, "resolved", slots[s].arg)
          /\ UNCHANGED <<token, online, db, now>>

deleteTest(s) ==
    \/ \E id \in Ids :
          /\ Free(s)
          /\ IF UseRemote
             THEN /\ Send(s, "deleteTest", <<id>>, token)
                  /\ UNCHANGED ls
             ELSE /\ ls' = deleteTestStore(ls, id)
                  /\ Local(s, "deleteTest", <<id>>, "resolved", <<>>)
          /\ UNCHANGED <<token, online, db, now>>
    \/ \E e \in BOOLEAN :
          /\ Resumed(s, "deleteTest", e)
          /\ ls' = deleteTestStore(ls, slots[s].arg[1])
          /\ Finish(s, e, "resolved", <<>>)
          /\ UNCHANGED <<token, online, db, now>>

\* GET /api/tests
get_tests(s) ==
    /\ Arrived(s, "getTests")
    /\ IF authenticateToken(slots[s].hdr)
       THEN Reply(s, TRUE, SortAsc(FilterOwner(db.tests, slots[s].hdr)))
       ELSE Reply(s, FALSE, <<>>)
    /\ UNCHANGED <<token, ls, online, db, now>>

\* { ...req.body, userId: req.user.id }
newTest(uid, test) == [id |-> test.id, userId |-> uid, val |-> test.val, at |-> test.at]

\* db.data.tests.push(newTest)
postTest(d, uid, test) == [d EXCEPT !.tests = Append(@, newTest(uid, test))]

\* POST /api/tests
post_tests(s) ==
    /\ Arrived(s, "addTest")
    /\ IF authenticateToken(slots[s].hdr)
       THEN /\ db' = postTest(db, slots[s].hdr, slots[s].arg[1])
            /\ Reply(s, TRUE, <<newTest(slots[s].hdr, slots[s].arg[1])>>)
       ELSE /\ Reply(s, FALSE, <<>>)
            /\ UNCHANGED db
    /\ UNCHANGED <<token, ls, online, now>>

\* DELETE /api/tests/:id
delete_tests(s) ==
    /\ Arrived(s, "deleteTest")
    /\ IF authenticateToken(slots[s].hdr)
       THEN /\ db' = [db EXCEPT !.tests = FilterOutOwned(@, slots[s].arg[1], slots[s].hdr)]
            /\ Reply(s, TRUE, <<>>)
       ELSE /\ Reply(s, FALSE, <<>>)
            /\ UNCHANGED db
    /\ UNCHANGED <<token, ls, online, now>>

(***************************************************************************)
(* STATS.  A UserStats value is a record over some of the fields xp and    *)
(* goals; the server's record also carries userId.                         *)
(***************************************************************************)
StatsArgs == {[xp |-> 1], [goals |-> 1], [xp |-> 2, goals |-> 2]}

\* getLocal(KEYS.STATS, null) as a result
localStats(store) ==
    IF store["STATS"].st = "ok" THEN <<store["STATS"].v>> ELSE <<>>

\* if (stats) this.setLocal(KEYS.STATS, stats)
getStatsStore(store, body) ==
    IF body # <<>> THEN setLocal(store, "STATS", body[1]) ELSE store

\* this.setLocal(KEYS.STATS, stats)
syncStatsStore(store, stats) == setLocal(store, "STATS", stats)

getStats(s) ==
    \/ /\ Free(s)
       /\ IF UseRemote
          THEN Send(s, "getStats", <<>>, token)
          ELSE Local(s, "getStats", <<>>, "resolved", localStats(ls))
       /\ UNCHANGED <<token, ls, online, db, now>>
    \/ /\ Replied(s, "getStats")
       /\ IF slots[s].ok
          THEN /\ ls' = getStatsStore(ls, slots[s].body)
               /\ Settle(s, "resolved", slots[s].body)
          ELSE /\ Settle(s, "resolved", localStats(ls))
               /\ UNCHANGED ls
       /\ UNCHANGED <<token, online, db, now>>
    \/ /\ Failed(s, "getStats")
       /\ Caught(s, "resolved", localStats(ls))
       /\ UNCHANGED <<token, ls, online, db, now>>

syncStats(s) ==
    \/ \E stats \in StatsArgs :
          /\ Free(s)
          /\ IF UseRemote
             THEN /\ Send(s, "syncStats", <<stats>>, token)
                  /\ UNCHANGED ls
             ELSE /\ ls' = syncStatsStore(ls, stats)
                  /\ Local(s, "syncStats", <<stats>>, "resolved", <<>>)
          /\ UNCHANGED <<token, online, db, now>>
    \/ \E e \in BOOLEAN :
          /\ Resumed(s, "syncStats", e)
          /\ ls' = syncStatsStore(ls, slots[s].arg[1])
          /\ Finish(s, e, "resolved", <<>>)
          /\ UNCHANGED <<token, online, db, now>>

FindStats(stats, uid) ==
    IF \E k \in 1 .. Len(stats) : stats[k].userId = uid
    THEN CHOOSE k \in 1 .. Len(stats) :
            /\ stats[k].userId = uid
            /\ \A j \in 1 .. (k - 1) : stats[j].userId # uid
    ELSE 0

\* GET /api/stats: the caller's record, or null
get_stats(s) ==
    /\ Arrived(s, "getStats")
    /\ LET k == FindStats(db.stats, slots[s].hdr)
       IN IF ~authenticateToken(slots[s].hdr) THEN Reply(s, FALSE, <<>>)
          ELSE IF k = 0 THEN Reply(s, TRUE, <<>>)
               ELSE Reply(s, TRUE, <<db.stats[k]>>)
    /\ UNCHANGED <<token, ls, online, db, now>>

\* POST /api/stats: { ...old, ...newStats }, or push({ userId, ...newStats })
post_stats(s) ==
    /\ Arrived(s, "syncStats")
    /\ LET k == FindStats(db.stats, slots[s].hdr)
       IN IF authenticateToken(slots[s].hdr)
          THEN /\ db' = IF k # 0
                        THEN [db EXCEPT !.stats[k] = slots[s].arg[1] @@ @]
                        ELSE [db EXCEPT !.stats =
                                 Append(@, slots[s].arg[1] @@ [userId |-> slots[s].hdr])]
               /\ Reply(s, TRUE, <<>>)
          ELSE /\ Reply(s, FALSE, <<>>)
               /\ UNCHANGED db
    /\ UNCHANGED <<token, ls, online, now>>

(***************************************************************************)
(* CHAT.                                                                   *)
(***************************************************************************)
\* the code of saveChatSession after the try block
saveChatSessionStore(store, session) ==
    setLocal(store, "CHATS", upsertLocal(getLocal(store, "CHATS", <<>>), session))

\* what getChatSessions does with a successful response: it returns it and
\* stores nothing
getChatSessionsStore(store, sessions) == store

getChatSessions(s) ==
    \/ /\ Free(s)
       /\ IF UseRemote
          THEN Send(s, "getChatSessions", <<>>, token)
          ELSE Local(s, "getChatSessions", <<>>, "resolved", getLocal(ls, "CHATS", <<>>))
       /\ UNCHANGED <<token, ls, online, db, now>>
    \/ /\ Replied(s, "getChatSessions")
       /\ IF slots[s].ok
          THEN /\ ls' = getChatSessionsStore(ls, slots[s].body)
               /\ Settle(s, "resolved", slots[s].body)
          ELSE /\ Settle(s, "resolved", getLocal(ls, "CHATS", <<>>))
               /\ UNCHANGED ls
       /\ UNCHANGED <<token, online, db, now>>
    \/ /\ Failed(s, "getChatSessions")
       /\ Caught(s, "resolved", getLocal(ls, "CHATS", <<>>))
       /\ UNCHANGED <<token, ls, online, db, now>>

saveChatSession(s) ==
    \/ \E session \in DatedItems :
          /\ Free(s)
          /\ IF UseRemote
             THEN /\ Send(s, "saveChatSession", <<session>>, token)
                  /\ UNCHANGED ls
             ELSE /\ ls' = saveChatSessionStore(ls, session)
                  /\ Local(s, "saveChatSession", <<session>>, "resolved", <<>>)
          /\ UNCHANGED <<token, online, db, now>>
    \/ \E e \in BOOLEAN :
          /\ Resumed(s, "saveChatSession", e)
          /\ ls' = saveChatSessionStore(ls, slots[s].arg[1])
          /\ Finish(s, e, "resolved", <<>>)
          /\ UNCHANGED <<token, online, db, now>>

\* GET /api/chats
get_chats(s) ==
    /\ Arrived(s, "getChatSessions")
    /\ IF authenticateToken(slots[s].hdr)
       THEN Reply(s, TRUE, SortDesc(FilterOwner(db.chat_sessions, slots[s].hdr)))
       ELSE Reply(s, FALSE, <<>>)
    /\ UNCHANGED <<token, ls, online, db, now>>

\* the caller's session with that id is updated, or a new one is unshifted
postChat(d, uid, session) ==
    LET k == FindOwned(d.chat_sessions, session.id, uid)
        new == [id |-> session.id, userId |-> uid, val |-> session.val, at |-> session.at]
    IN IF k # 0
       THEN [d EXCEPT !.chat_sessions[k].val = session.val,
                      !.chat_sessions[k].at = session.at]
       ELSE [d EXCEPT !.chat_sessions = <<new>> \o @]

\* POST /api/chats
post_chats(s) ==
    /\ Arrived(s, "saveChatSession")
    /\ IF authenticateToken(slots[s].hdr)
       THEN /\ db' = postChat(db, slots[s].hdr, slots[s].arg[1])
            /\ Reply(s, TRUE, <<>>)
       ELSE /\ Reply(s, FALSE, <<>>)
            /\ UNCHANGED db
    /\ UNCHANGED <<token, ls, online, now>>

(***************************************************************************)
(* COMMUNITY.  A CommunityItem is a record id, val (type, title,           *)
(* description, author, data), downloads, at (timestamp).                  *)
(***************************************************************************)
\* ids crypto.randomUUID() may return to the client
UUIDs == {"u1", "u2"}
\* ids incrementDownload is called with: published, seeded or unknown
CommunityIds == {"u1", "seed-1", "g1", "none"}
\* .slice(0, 50) of GET /api/community
PageSize == 50

\* the seed set of _localGetCommunity, built at time t
seeds(t) ==
    << [id |-> "seed-1", val |-> 0, downloads |-> 124, at |-> t],
       [id |-> "seed-2", val |-> 0, downloads |-> 45, at |-> t - 1],
       [id |-> "seed-3", val |-> 0, downloads |-> 89, at |-> t - 2] >>

\* db.seed(): the community items of a new database
dbSeed ==
    << [id |-> "g1", val |-> 0, downloads |-> 124, at |-> 0],
       [id |-> "g2", val |-> 0, downloads |-> 45, at |-> -1],
       [id |-> "g3", val |-> 0, downloads |-> 89, at |-> -2],
       [id |-> "g4", val |-> 0, downloads |-> 12, at |-> -3],
       [id |-> "g5", val |-> 0, downloads |-> 156, at |-> -4] >>

\* a _localShare that does not look for the id
localShareAlways(store, item) ==
    setLocal(store, "COMMUNITY", <<item>> \o getLocal(store, "COMMUNITY", <<>>))

\* _localShare(item)
localShare(store, item) ==
    IF FindIndex(getLocal(store, "COMMUNITY", <<>>), item.id) = 0
    THEN setLocal(store, "COMMUNITY", <<item>> \o getLocal(store, "COMMUNITY", <<>>))
    ELSE store

\* a _localGetCommunity without seeds
localGetCommunityNoSeed(store, t) == store

\* _localGetCommunity(): the store afterwards
localGetCommunity(store, t) ==
    IF Len(getLocal(store, "COMMUNITY", <<>>)) = 0
    THEN setLocal(store, "COMMUNITY", seeds(t))
    ELSE store

\* a _localIncrement that counts an unknown id on the last item of the list
localIncrementLast(store, id) ==
    LET community == getLocal(store, "COMMUNITY", <<>>)
        index == IF FindIndex(community, id) # 0 THEN FindIndex(community, id)
                 ELSE Len(community)
    IN IF index # 0
       THEN setLocal(store, "COMMUNITY",
                     [community EXCEPT ![index].downloads = @ + 1])
       ELSE store

\* _localIncrement(id)
localIncrement(store, id) ==
    LET community == getLocal(store, "COMMUNITY", <<>>)
        index == FindIndex(community, id)
    IN IF index # 0
       THEN setLocal(store, "COMMUNITY",
                     [community EXCEPT ![index].downloads = @ + 1])
       ELSE store

shareToCommunity(s) ==
    \/ \E u \in UUIDs, v \in Vals :
          LET sharedItem == [id |-> u, val |-> v, downloads |-> 0, at |-> now]
          IN /\ Free(s)
             /\ IF isOnline(online)
                THEN /\ Send(s, "shareToCommunity", <<sharedItem>>, NoToken)
                     /\ UNCHANGED ls
                ELSE /\ ls' = localShare(ls, sharedItem)
                     /\ Local(s, "shareToCommunity", <<sharedItem>>, "resolved", <<>>)
             /\ UNCHANGED <<token, online, db, now>>
    \/ \E e \in BOOLEAN :
          /\ Resumed(s, "shareToCommunity", e)
          /\ ls' = localShare(ls, slots[s].arg[1])
          /\ Finish(s, e, "resolved", <<>>)
          /\ UNCHANGED <<token, online, db, now>>

\* a fetch without a signal: the catch block runs only once the remote has
\* answered
getCommunityItemsCatchNoSignal(s) ==
    /\ Replied(s, "getCommunityItems")
    /\ ls' = localGetCommunity(ls, now)
    /\ Caught(s, "resolved", getLocal(localGetCommunity(ls, now), "COMMUNITY", <<>>))
    /\ UNCHANGED <<token, online, db, now>>

\* the catch block of getCommunityItems and the return after it: the fetch
\* has rejected, because the request or the response was lost or because
\* AbortSignal.timeout(2500) has aborted it
getCommunityItemsCatch(s) ==
    /\ Failed(s, "getCommunityItems")
    /\ ls' = localGetCommunity(ls, now)
    /\ Caught(s, "resolved", getLocal(localGetCommunity(ls, now), "COMMUNITY", <<>>))
    /\ UNCHANGED <<token, online, db, now>>

getCommunityItems(s) ==
    \/ /\ Free(s)
       /\ IF isOnline(online)
          THEN /\ Send(s, "getCommunityItems", <<>>, NoToken)
               /\ UNCHANGED ls
          ELSE /\ ls' = localGetCommunity(ls, now)
               /\ Local(s, "getCommunityItems", <<>>, "resolved",
                        getLocal(localGetCommunity(ls, now), "COMMUNITY", <<>>))
       /\ UNCHANGED <<token, online, db, now>>
    \/ /\ Replied(s, "getCommunityItems")
       /\ IF slots[s].ok
          THEN /\ ls' = setLocal(ls, "COMMUNITY", slots[s].body)
               /\ Settle(s, "resolved", slots[s].body)
          ELSE /\ ls' = localGetCommunity(ls, now)
               /\ Settle(s, "resolved", getLocal(localGetCommunity(ls, now), "COMMUNITY", <<>>))
       /\ UNCHANGED <<token, online, db, now>>
    \/ getCommunityItemsCatch(s)

incrementDownload(s) ==
    \/ \E id \in CommunityIds :
          /\ Free(s)
          /\ ls' = localIncrement(ls, id)
          /\ IF isOnline(online)
             THEN Send(s, "incrementDownload", <<id>>, NoToken)
             ELSE Local(s, "incrementDownload", <<id>>, "resolved", <<>>)
          /\ UNCHANGED <<token, online, db, now>>
    \/ \E e \in BOOLEAN :
          /\ Resumed(s, "incrementDownload", e)
          /\ Finish(s, e, "resolved", <<>>)
          /\ UNCHANGED <<token, ls, online, db, now>>

\* GET /api/community: sorts the stored list in place, answers its first page
get_community(s) ==
    /\ Arrived(s, "getCommunityItems")
    /\ db' = [db EXCEPT !.community = SortDesc(@)]
    /\ Reply(s, TRUE, SubSeq(SortDesc(db.community), 1,
                             IF Len(db.community) < PageSize THEN Len(db.community)
                             ELSE PageSize))
    /\ UNCHANGED <<token, ls, online, now>>

\* POST /api/community
post_community(s) ==
    /\ Arrived(s, "shareToCommunity")
    /\ IF FindIndex(db.community, slots[s].arg[1].id) # 0
       THEN /\ Reply(s, TRUE, <<>>)
            /\ UNCHANGED <<db, now>>
       ELSE LET newItem == [id |-> slots[s].arg[1].id, val |-> slots[s].arg[1].val,
                            downloads |-> 0, at |-> now]
            IN /\ db' = [db EXCEPT !.community = <<newItem>> \o @]
               /\ now' = now + 1
               /\ Reply(s, TRUE, <<>>)
    /\ UNCHANGED <<token, ls, online>>

\* POST /api/community/:id/download
post_download(s) ==
    /\ Arrived(s, "incrementDownload")
    /\ LET k == FindIndex(db.community, slots[s].arg[1])
       IN IF k # 0
          THEN /\ db' = [db EXCEPT !.community[k].downloads = @ + 1]
               /\ Reply(s, TRUE, <<>>)
          ELSE /\ Reply(s, FALSE, <<>>)
               /\ UNCHANGED db
    /\ UNCHANGED <<token, ls, online, now>>

(***************************************************************************)
(* Environment.                                                            *)
(***************************************************************************)
\* the request does not reach a handler and is answered with a non-success
\* status (the dev-server proxy in front of a server that is down, a body
\* over the 50mb limit of express.json)
Unavailable(s) ==
    /\ slots[s].pc = "sent"
    /\ Reply(s, FALSE, <<>>)
    /\ UNCHANGED <<token, ls, online, db, now>>

\* navigator.onLine changes.  The client reads it when a method is called and
\* at no other time, so its changes after the last call of a run are left out.
SetOnline ==
    /\ budget > 0
    /\ online' = ~online
    /\ UNCHANGED <<token, ls, db, now, slots, budget>>

(***************************************************************************)
(* Initial states: the state after `new ApiService()` and db.load().       *)
(*   FreshStart      a fresh browser profile (empty localStorage, so the   *)
(*                   constructor finds no token) and a new database;       *)
(*   ReturningStart  the page is loaded again after a user has registered: *)
(*                   the database holds that user and the stats record     *)
(*                   register made, localStorage holds the token and the   *)
(*                   profile register stored, the constructor reads the    *)
(*                   token;                                                *)
(*   CachedStart     the page is loaded again after that user has worked   *)
(*                   with the application: online, createDeck of decks 1   *)
(*                   and 2, getDecks, saveNote of note 1, getNotes,        *)
(*                   addTest of test 1, getCommunityItems; then offline,   *)
(*                   saveNote of note 2 and addTest of test 2.  No chat    *)
(*                   session has been saved, the stats have not been read. *)
(***************************************************************************)
FreshStore == [k \in KEYS |-> Absent]

FreshDb == [users |-> <<>>, decks |-> <<>>, notes |-> <<>>, tests |-> <<>>,
            stats |-> <<>>, chat_sessions |-> <<>>, community |-> dbSeed]

FirstUser == [id |-> 1, email |-> "a@x", password |-> hash("pw"),
              themeMode |-> DefaultPrefs.themeMode,
              colorScheme |-> DefaultPrefs.colorScheme,
              enableSeasonal |-> DefaultPrefs.enableSeasonal]

ReturningStore ==
    storeSession(FreshStore, [token |-> sign(FirstUser), user |-> userSafe(FirstUser)])

ReturningDb == [FreshDb EXCEPT !.users = <<FirstUser>>,
                               !.stats = <<[userId |-> 1, xp |-> 0, goals |-> 0]>>]

CachedDb ==
    LET d1 == postDeck(ReturningDb, 1, ClientItem(1, 1), 2)
        d2 == postDeck(d1, 1, ClientItem(2, 1), 3)
        d3 == postNote(d2, 1, ClientItem(1, 1), 4)
    IN postTest(d3, 1, DatedItem(1, 1))

CachedStore ==
    LET s1 == setLocal(ReturningStore, "DECKS", SortDesc(FilterOwner(CachedDb.decks, 1)))
        s2 == setLocal(s1, "NOTES", SortDesc(FilterOwner(CachedDb.notes, 1)))
        s3 == addTestStore(s2, DatedItem(1, 1))
        s4 == setLocal(s3, "COMMUNITY", dbSeed)
        s5 == saveNoteStore(s4, ClientItem(2, 1))
    IN addTestStore(s5, DatedItem(2, 2))

FreshStart ==
    /\ ls = FreshStore
    /\ token = getLocal(FreshStore, "TOKEN", NoToken)
    /\ db = FreshDb
    /\ now = 1

ReturningStart ==
    /\ ls = ReturningStore
    /\ token = getLocal(ReturningStore, "TOKEN", NoToken)
    /\ db = ReturningDb
    /\ now = 2

CachedStart ==
    /\ ls = CachedStore
    /\ token = getLocal(CachedStore, "TOKEN", NoToken)
    /\ db = CachedDb
    /\ now = 5

\* CachedStart, and then: saveChatSession of session 1 (online), logout,
\* register of b@x on the same browser.  The second user is signed in and
\* localStorage still holds the first user's mirrors.
SharedDb ==
    postRegister(postChat(CachedDb, 1, DatedItem(1, 1)), "b@x", "pw")

SharedStore ==
    LET s1 == saveChatSessionStore(CachedStore, DatedItem(1, 1))
        s2 == removeItem(removeItem(s1, "TOKEN"), "USER")
    IN storeSession(s2, [token |-> sign(SharedDb.users[2]),
                         user |-> userSafe(SharedDb.users[2])])

SharedStart ==
    /\ ls = SharedStore
    /\ token = getLocal(SharedStore, "TOKEN", NoToken)
    /\ db = SharedDb
    /\ now = 6

\* no call in flight, a run of so many calls ahead
Idle(calls) ==
    /\ online = TRUE
    /\ slots = [s \in Slots |-> NoCall]
    /\ budget = calls

Init ==
    /\ FreshStart \/ CachedStart
    /\ Idle(MaxCalls)

Next ==
    \/ \E s \in Slots : login(s)
    \/ \E s \in Slots : register(s)
    \/ \E s \in Slots : logout(s)
    \/ \E s \in Slots : getMe(s)
    \/ \E s \in Slots : savePreferences(s)
    \/ \E s \in Slots : getDecks(s)
    \/ \E s \in Slots : createDeck(s)
    \/ \E s \in Slots : updateDeck(s)
    \/ \E s \in Slots : deleteDeck(s)
    \/ \E s \in Slots : getNotes(s)
    \/ \E s \in Slots : saveNote(s)
    \/ \E s \in Slots : deleteNote(s)
    \/ \E s \in Slots : getTests(s)
    \/ \E s \in Slots : addTest(s)
    \/ \E s \in Slots : deleteTest(s)
    \/ \E s \in Slots : getStats(s)
    \/ \E s \in Slots : syncStats(s)
    \/ \E s \in Slots : getChatSessions(s)
    \/ \E s \in Slots : saveChatSession(s)
    \/ \E s \in Slots : shareToCommunity(s)
    \/ \E s \in Slots : getCommunityItems(s)
    \/ \E s \in Slots : incrementDownload(s)
    \/ \E s \in Slots : post_register_check(s)
    \/ \E s \in Slots : post_register_insert(s)
    \/ \E s \in Slots : post_login(s)
    \/ \E s \in Slots : get_me(s)
    \/ \E s \in Slots : put_preferences(s)
    \/ \E s \in Slots : get_decks(s)
    \/ \E s \in Slots : post_decks(s)
    \/ \E s \in Slots : put_decks(s)
    \/ \E s \in Slots : delete_decks(s)
    \/ \E s \in Slots : get_notes(s)
    \/ \E s \in Slots : post_notes(s)
    \/ \E s \in Slots : delete_notes(s)
    \/ \E s \in Slots : get_tests(s)
    \/ \E s \in Slots : post_tests(s)
    \/ \E s \in Slots : delete_tests(s)
    \/ \E s \in Slots : get_stats(s)
    \/ \E s \in Slots : post_stats(s)
    \/ \E s \in Slots : get_chats(s)
    \/ \E s \in Slots : post_chats(s)
    \/ \E s \in Slots : get_community(s)
    \/ \E s \in Slots : post_community(s)
    \/ \E s \in Slots : post_download(s)
    \/ \E s \in Slots : Unavailable(s)
    \/ SetOnline

Spec == Init /\ [][Next]_vars

\* The user with cached data, every method, and time: the timer of
\* AbortSignal.timeout(2500) runs out, so a getCommunityItems whose fetch is
\* in flight resumes in its catch block sooner or later.  Nothing makes the
\* server answer and nothing makes another fetch settle.
InitTimeout ==
    /\ CachedStart
    /\ Idle(MaxCalls)

SpecTimeout ==
    InitTimeout /\ [][Next]_vars /\ \A s \in Slots : WF_vars(getCommunityItemsCatch(s))


(***************************************************************************)
(* Two calls that may overlap: register and the inserting methods, from a  *)
(* state without cached data.                                              *)
(***************************************************************************)
InitPair ==
    /\ FreshStart \/ ReturningStart
    /\ Idle(MaxPair)

NextPair ==
    \/ \E s \in Slots : register(s)
    \/ \E s \in Slots : createDeck(s)
    \/ \E s \in Slots : saveNote(s)
    \/ \E s \in Slots : addTest(s)
    \/ \E s \in Slots : saveChatSession(s)
    \/ \E s \in Slots : post_register_check(s)
    \/ \E s \in Slots : post_register_insert(s)
    \/ \E s \in Slots : post_decks(s)
    \/ \E s \in Slots : post_notes(s)
    \/ \E s \in Slots : post_tests(s)
    \/ \E s \in Slots : post_chats(s)
    \/ \E s \in Slots : Unavailable(s)
    \/ SetOnline

SpecPair == InitPair /\ [][NextPair]_vars


(***************************************************************************)
(* A session of the user with cached data: login, register, logout and the *)
(* reads, two calls in a run.                                              *)
(***************************************************************************)
InitSession ==
    /\ CachedStart
    /\ Idle(MaxSession)

NextSession ==
    \/ \E s \in Slots : login(s)
    \/ \E s \in Slots : register(s)
    \/ \E s \in Slots : logout(s)
    \/ \E s \in Slots : getMe(s)
    \/ \E s \in Slots : getDecks(s)
    \/ \E s \in Slots : getNotes(s)
    \/ \E s \in Slots : getTests(s)
    \/ \E s \in Slots : getStats(s)
    \/ \E s \in Slots : getChatSessions(s)
    \/ \E s \in Slots : getCommunityItems(s)
    \/ \E s \in Slots : post_register_check(s)
    \/ \E s \in Slots : post_register_insert(s)
    \/ \E s \in Slots : post_login(s)
    \/ \E s \in Slots : get_me(s)
    \/ \E s \in Slots : get_decks(s)
    \/ \E s \in Slots : get_notes(s)
    \/ \E s \in Slots : get_tests(s)
    \/ \E s \in Slots : get_stats(s)
    \/ \E s \in Slots : get_chats(s)
    \/ \E s \in Slots : get_community(s)
    \/ \E s \in Slots : Unavailable(s)
    \/ SetOnline

SpecSession == InitSession /\ [][NextSession]_vars


(***************************************************************************)
(* The community methods, two calls in a run.                              *)
(***************************************************************************)
InitCommunity ==
    /\ FreshStart \/ CachedStart
    /\ Idle(MaxCommunity)

NextCommunity ==
    \/ \E s \in Slots : shareToCommunity(s)
    \/ \E s \in Slots : getCommunityItems(s)
    \/ \E s \in Slots : incrementDownload(s)
    \/ \E s \in Slots : get_community(s)
    \/ \E s \in Slots : post_community(s)
    \/ \E s \in Slots : post_download(s)
    \/ \E s \in Slots : Unavailable(s)
    \/ SetOnline

SpecCommunity == InitCommunity /\ [][NextCommunity]_vars


(***************************************************************************)
(* The stats methods of the user with cached data, two calls in a run.     *)
(***************************************************************************)
InitStats ==
    /\ CachedStart
    /\ Idle(MaxStats)

NextStats ==
    \/ \E s \in Slots : getStats(s)
    \/ \E s \in Slots : syncStats(s)
    \/ \E s \in Slots : get_stats(s)
    \/ \E s \in Slots : post_stats(s)
    \/ \E s \in Slots : Unavailable(s)
    \/ SetOnline

SpecStats == InitStats /\ [][NextStats]_vars


(***************************************************************************)
(* The writes of owned records, made by the second user of a browser and a *)
(* server that hold the first user's records.                              *)
(***************************************************************************)
InitOwner ==
    /\ SharedStart
    /\ Idle(MaxOwner)

NextOwner ==
    \/ \E s \in Slots : createDeck(s)
    \/ \E s \in Slots : updateDeck(s)
    \/ \E s \in Slots : deleteDeck(s)
    \/ \E s \in Slots : saveNote(s)
    \/ \E s \in Slots : deleteNote(s)
    \/ \E s \in Slots : addTest(s)
    \/ \E s \in Slots : deleteTest(s)
    \/ \E s \in Slots : syncStats(s)
    \/ \E s \in Slots : saveChatSession(s)
    \/ \E s \in Slots : post_decks(s)
    \/ \E s \in Slots : put_decks(s)
    \/ \E s \in Slots : delete_decks(s)
    \/ \E s \in Slots : post_notes(s)
    \/ \E s \in Slots : delete_notes(s)
    \/ \E s \in Slots : post_tests(s)
    \/ \E s \in Slots : delete_tests(s)
    \/ \E s \in Slots : post_stats(s)
    \/ \E s \in Slots : post_chats(s)
    \/ \E s \in Slots : Unavailable(s)
    \/ SetOnline

SpecOwner == InitOwner /\ [][NextOwner]_vars


(***************************************************************************)
(* The deck methods on a browser whose decks slot was overwritten outside  *)
(* the program (another script of the origin, the developer tools, another *)
(* version of the program) with a text that does not parse, or with one    *)
(* that parses to a value that is no array.                                *)
(***************************************************************************)
DamagedSlots == {Garbled, Stored(NotAList)}

InitCorrupt ==
    /\ ls \in {[CachedStore EXCEPT !["DECKS"] = c] : c \in DamagedSlots}
    /\ token = getLocal(CachedStore, "TOKEN", NoToken)
    /\ db = CachedDb
    /\ now = 5
    /\ Idle(MaxCorrupt)

NextCorrupt ==
    \/ \E s \in Slots : getDecks(s)
    \/ \E s \in Slots : createDeck(s)
    \/ \E s \in Slots : updateDeck(s)
    \/ \E s \in Slots : deleteDeck(s)
    \/ \E s \in Slots : get_decks(s)
    \/ \E s \in Slots : post_decks(s)
    \/ \E s \in Slots : put_decks(s)
    \/ \E s \in Slots : delete_decks(s)
    \/ \E s \in Slots : Unavailable(s)
    \/ SetOnline

SpecCorrupt == InitCorrupt /\ [][NextCorrupt]_vars


(***************************************************************************)
(* Sequential runs of the deck writes of the user with cached data, right  *)
(* after getDecks: online, with the credential, each call made when the    *)
(* one before has completed, every request answered by the server.         *)
(***************************************************************************)
\* a call is made when no call is in flight, and a method resumes on the
\* response of the server to its request
Orderly ==
    /\ budget' # budget => \A s \in Slots : slots[s].pc = "done"
    /\ \A s \in Slots :
          (slots[s].pc # "done" /\ slots'[s].pc = "done")
          => slots[s].pc = "replied" /\ ~slots'[s].err

InitSequential ==
    /\ CachedStart
    /\ Idle(MaxSequential)

NextSequential ==
    \/ \E s \in Slots : createDeck(s) /\ Orderly
    \/ \E s \in Slots : updateDeck(s) /\ Orderly
    \/ \E s \in Slots : deleteDeck(s) /\ Orderly
    \/ \E s \in Slots : post_decks(s)
    \/ \E s \in Slots : put_decks(s)
    \/ \E s \in Slots : delete_decks(s)

SpecSequential == InitSequential /\ [][NextSequential]_vars


(***************************************************************************)
(* Properties.                                                             *)
(***************************************************************************)
ReadOps == {"getDecks", "getNotes", "getTests", "getStats", "getChatSessions"}
OwnedReadOps == ReadOps \cup {"getMe"}
AuthOps == {"login", "register"}

\* what a read returns when it answers from the Local Store
MirrorResult(store, o) ==
    CASE o = "getDecks" -> getLocal(store, "DECKS", <<>>)
      [] o = "getNotes" -> getLocal(store, "NOTES", <<>>)
      [] o = "getTests" -> getLocal(store, "TESTS", <<>>)
      [] o = "getChatSessions" -> getLocal(store, "CHATS", <<>>)
      [] o = "getStats" -> localStats(store)
      [] o = "getMe" -> localUser(store)

\* the step is the call of a client method in slot s: the first free slot
\* takes the call, and every call counts
CallStep(s) ==
    /\ budget' = budget - 1
    /\ slots[s].pc = "done"
    /\ \A r \in Slots : r < s => slots[r].pc # "done"

\* the step is the end of the call in slot s, after its fetch has settled
ResumeStep(s) == slots[s].pc \in {"sent", "replied"} /\ slots'[s].pc = "done"

\* C1: a read-collection method called with a credential while online, whose
\* fetch succeeds, returns the response, and the Local Store mirror of that
\* kind equals the response afterwards.
C1_ReadStoresResponse ==
    [][\A s \in Slots :
          (/\ slots[s].op \in ReadOps
           /\ slots[s].pc = "replied" /\ slots[s].ok
           /\ slots'[s].pc = "done" /\ ~slots'[s].err)
          => /\ slots'[s].ret = slots[s].body
             /\ MirrorResult(ls', slots[s].op) = slots[s].body]_vars

\* C2: a method called while the oracle reports offline issues no request;
\* login and register reject at once and leave the session (credential and
\* Local Store) as it was.
C2_OfflineNoRemote ==
    [][\A s \in Slots :
          (CallStep(s) /\ ~online)
          => /\ slots'[s].pc = "done"
             /\ ~slots'[s].net
             /\ db' = db
             /\ slots'[s].op \in AuthOps
                  => /\ slots'[s].st = "rejected"
                     /\ token' = token
                     /\ ls' = ls]_vars

C2_Witness ==
    \E s \in Slots :
        /\ slots[s].op = "login" /\ ~slots[s].net
        /\ slots[s].pc = "done" /\ slots[s].st = "rejected"
        /\ ~online /\ token # NoToken

\* C9: no method other than login and register ever rejects, whatever the
\* remote outcome (network error, timeout, non-success status).
C9_DataOpsNeverReject ==
    \A s \in Slots : slots[s].st = "rejected" => slots[s].op \in AuthOps

C9_Witness ==
    \E s \in Slots :
        /\ slots[s].op = "syncStats" /\ slots[s].net /\ slots[s].err
        /\ slots[s].pc = "done" /\ slots[s].st = "resolved"

\* C10: a read whose fetch fails (network error, non-success status) returns
\* the Local Store mirror and leaves the Local Store unchanged; without a
\* credential the owned reads answer from the mirror and issue no request,
\* also when online.
C10_ReadFallsBackToMirror ==
    [][\A s \in Slots :
          /\ (/\ ResumeStep(s) /\ slots[s].op \in OwnedReadOps
              /\ (slots'[s].err \/ ~slots[s].ok))
             => /\ ls' = ls
                /\ slots'[s].st = "resolved"
                /\ slots'[s].ret = MirrorResult(ls, slots[s].op)
          /\ (/\ CallStep(s) /\ slots'[s].op \in OwnedReadOps
              /\ token = NoToken)
             => /\ slots'[s].pc = "done" /\ ~slots'[s].net
                /\ ls' = ls /\ db' = db
                /\ slots'[s].st = "resolved"
                /\ slots'[s].ret = MirrorResult(ls, slots'[s].op)]_vars

C10_Witness ==
    \E s \in Slots :
        /\ slots[s].op = "getDecks" /\ slots[s].pc = "done" /\ slots[s].net
        /\ ~slots[s].ok
        /\ slots[s].ret # <<>>
        /\ slots[s].ret = getLocal(ls, "DECKS", <<>>)


UpsertOps == {"createDeck", "updateDeck", "saveNote", "addTest", "saveChatSession"}
InsertOps == {"createDeck", "saveNote", "addTest", "saveChatSession"}

\* the local mirror an upsert method writes
UpsertMirror(store, o) ==
    CASE o \in {"createDeck", "updateDeck"} -> getLocal(store, "DECKS", <<>>)
      [] o = "saveNote" -> getLocal(store, "NOTES", <<>>)
      [] o = "addTest" -> getLocal(store, "TESTS", <<>>)
      [] o = "saveChatSession" -> getLocal(store, "CHATS", <<>>)

Contains(l, item) == \E k \in 1 .. Len(l) : l[k] = item

\* the step in which the upsert in slot s runs its local write: its call when
\* it issues no request, the end of the call otherwise
WriteStep(s) ==
    /\ CallStep(s) \/ ResumeStep(s)
    /\ slots'[s].pc = "done"
    /\ slots'[s].op \in UpsertOps

\* C3: an upsert with an id that is in the mirror leaves exactly one item
\* with that id, the new one, at the old position, the rest as it was.
C3_UpsertReplacesInPlace ==
    [][\A s \in Slots :
          LET o == slots'[s].op
              item == slots'[s].arg[1]
              old == UpsertMirror(ls, o)
              new == UpsertMirror(ls', o)
          IN (WriteStep(s) /\ FindIndex(old, item.id) # 0)
             => /\ new = [old EXCEPT ![FindIndex(old, item.id)] = item]
                /\ CountId(new, item.id) = 1]_vars

\* C4 as stated: an upsert with an id that is not in the mirror puts the item
\* first, in front of the previous items.
C4_UpsertInsertsAtHead ==
    [][\A s \in Slots :
          LET o == slots'[s].op
              item == slots'[s].arg[1]
              old == UpsertMirror(ls, o)
              new == UpsertMirror(ls', o)
          IN (WriteStep(s) /\ FindIndex(old, item.id) = 0)
             => new = <<item>> \o old]_vars

\* C4 as amended: with an id that is not in the mirror, createDeck, saveNote
\* and saveChatSession put the item first, in front of the previous items in
\* their order; addTest puts it last, behind them; updateDeck writes nothing.
C4_InsertPerMethod ==
    [][\A s \in Slots :
          LET o == slots'[s].op
              item == slots'[s].arg[1]
              old == UpsertMirror(ls, o)
              new == UpsertMirror(ls', o)
          IN (WriteStep(s) /\ FindIndex(old, item.id) = 0)
             => /\ o \in {"createDeck", "saveNote", "saveChatSession"}
                     => new = <<item>> \o old
                /\ o = "addTest" => new = old \o <<item>>
                /\ o = "updateDeck" => ls' = ls]_vars

C4_Witness ==
    \E s \in Slots :
        /\ slots[s].op = "createDeck" /\ slots[s].pc = "done"
        /\ Len(getLocal(ls, "DECKS", <<>>)) = 3
        /\ getLocal(ls, "DECKS", <<>>)[1] = slots[s].arg[1]
        /\ CountId(getLocal(ls, "DECKS", <<>>), slots[s].arg[1].id) = 1

\* C5 as stated: the item of an upsert called online with a credential is in
\* the mirror also while its remote write has not completed.
C5_WrittenWhilePending ==
    \A s \in Slots :
        (/\ slots[s].op \in UpsertOps /\ slots[s].pc = "sent"
         /\ slots[s].op = "updateDeck"
              => FindIndex(getLocal(ls, "DECKS", <<>>), slots[s].arg[1].id) # 0)
        => Contains(UpsertMirror(ls, slots[s].op), slots[s].arg[1])

\* C5 as amended: an upsert called online with a credential writes nothing
\* and stays pending until its fetch settles; once it has settled, whether
\* with success, a non-success status or a network error, the item is in the
\* mirror (updateDeck: when its id is there) and the call resolves.
C5_WrittenOnceSettled ==
    [][\A s \in Slots :
          /\ (/\ CallStep(s) /\ slots'[s].op \in UpsertOps
              /\ token # NoToken /\ online)
             => /\ slots'[s].pc = "sent" /\ slots'[s].st = "pending"
                /\ ls' = ls
          /\ (ResumeStep(s) /\ slots[s].op \in UpsertOps)
             => /\ slots'[s].st = "resolved"
                /\ (\/ slots[s].op # "updateDeck"
                    \/ FindIndex(getLocal(ls, "DECKS", <<>>), slots[s].arg[1].id) # 0)
                   => Contains(UpsertMirror(ls', slots[s].op), slots[s].arg[1])]_vars

C5_Witness ==
    \E s \in Slots :
        /\ slots[s].op = "saveNote" /\ slots[s].pc = "done" /\ slots[s].net
        /\ ~slots[s].err /\ ~slots[s].ok /\ slots[s].st = "resolved"
        /\ Contains(getLocal(ls, "NOTES", <<>>), slots[s].arg[1])

\* two calls have been made, no other, they overlapped (the second took the
\* second slot), both have run to their end, and they are inserts of two
\* different ids into the same collection
RacedInserts ==
    /\ budget = MaxPair - 2
    /\ slots[1].pc = "done" /\ slots[2].pc = "done"
    /\ slots[1].op \in InsertOps
    /\ slots[2].op = slots[1].op
    /\ slots[1].arg[1].id # slots[2].arg[1].id

\* C6 as stated: two racing upserts lose a write (the last write wins).
C6_RaceLosesWrite ==
    RacedInserts
    => \/ ~Contains(UpsertMirror(ls, slots[1].op), slots[1].arg[1])
       \/ ~Contains(UpsertMirror(ls, slots[1].op), slots[2].arg[1])

\* C6 as amended: two racing upserts lose no write, both items are in the
\* mirror once both calls have run to their end.
C6_RaceKeepsBoth ==
    RacedInserts
    => /\ Contains(UpsertMirror(ls, slots[1].op), slots[1].arg[1])
       /\ Contains(UpsertMirror(ls, slots[1].op), slots[2].arg[1])
       /\ Len(UpsertMirror(ls, slots[1].op)) = 2

C6_Witness ==
    /\ RacedInserts
    /\ slots[1].op = "saveNote"
    /\ slots[1].net /\ slots[2].net
    /\ Len(getLocal(ls, "NOTES", <<>>)) = 2

\* C7: neither the server, for one user, nor a local mirror holds two records
\* with the same id.
C7_OneRecordPerId ==
    /\ \A l \in {db.decks, db.notes, db.tests, db.chat_sessions} :
          \A j, k \in 1 .. Len(l) :
             (l[j].id = l[k].id /\ l[j].userId = l[k].userId) => j = k
    /\ \A key \in {"DECKS", "NOTES", "TESTS", "CHATS"} :
          \A id \in Ids : CountId(getLocal(ls, key, <<>>), id) <= 1

\* C8: no two users of the server share an e-mail address.
C8_EmailUnique ==
    \A j, k \in 1 .. Len(db.users) :
        db.users[j].email = db.users[k].email => j = k

(***************************************************************************)
(* Deletes.                                                                *)
(***************************************************************************)
DeleteOps == {"deleteDeck", "deleteNote", "deleteTest"}

\* the local write of a delete method
DeleteStore(store, o, id) ==
    CASE o = "deleteDeck" -> deleteDeckStore(store, id)
      [] o = "deleteNote" -> deleteNoteStore(store, id)
      [] o = "deleteTest" -> deleteTestStore(store, id)

\* the step in which the delete in slot s runs its local write
DeleteWriteStep(s) ==
    /\ CallStep(s) \/ ResumeStep(s)
    /\ slots'[s].pc = "done"
    /\ slots'[s].op \in DeleteOps

\* C11: the local write of deleteDeck, deleteNote and deleteTest is the same
\* whether the call is made offline, without a credential or after its fetch
\* has settled, and the Local Store it leaves is the one a second call with
\* the same id leaves again: twice is once.
C11_DeleteTwiceIsOnce ==
    [][\A s \in Slots :
          DeleteWriteStep(s)
          => /\ ls' = DeleteStore(ls, slots'[s].op, slots'[s].arg[1])
             /\ DeleteStore(ls', slots'[s].op, slots'[s].arg[1]) = ls']_vars

C11_Witness ==
    \E s \in Slots :
        /\ slots[s].op = "deleteNote" /\ slots[s].pc = "done" /\ slots[s].net
        /\ slots[s].arg[1] = 1
        /\ Len(getLocal(ls, "NOTES", <<>>)) = 1
        /\ getLocal(ls, "NOTES", <<>>)[1].id = 2

(***************************************************************************)
(* Session.                                                                *)
(***************************************************************************)
\* the slots of the Local Store that cache domain collections
DomainKeys == {"DECKS", "NOTES", "TESTS", "STATS", "CHATS", "COMMUNITY"}

\* C12: logout clears the credential in memory and in the Local Store and
\* leaves every cached domain collection (and the server) as it was; a read
\* called afterwards, without a credential, returns what is cached, also when
\* online.
C12_LogoutKeepsCaches ==
    [][\A s \in Slots :
          /\ (CallStep(s) /\ slots'[s].op = "logout")
             => /\ token' = NoToken
                /\ ls'["TOKEN"] = Absent
                /\ \A k \in DomainKeys : ls'[k] = ls[k]
                /\ db' = db
          /\ (CallStep(s) /\ token = NoToken /\ slots'[s].op \in ReadOps)
             => /\ slots'[s].st = "resolved"
                /\ slots'[s].ret = MirrorResult(ls, slots'[s].op)
                /\ \A k \in DomainKeys : ls'[k] = ls[k]]_vars

\* decks cached for user 1 are read after the logout, while online
C12_Witness ==
    \E s \in Slots :
        /\ token = NoToken /\ ls["TOKEN"] = Absent /\ online
        /\ slots[s].op = "getDecks" /\ slots[s].pc = "done" /\ ~slots[s].net
        /\ Len(slots[s].ret) = 2
        /\ \A k \in 1 .. 2 : slots[s].ret[k].userId = 1

\* C13: a login or register that gets a success response keeps the returned
\* credential in memory and stores credential and profile in the Local Store,
\* so isAuthenticated() holds; getMe called offline returns the stored profile.
C13_LoginPersists ==
    [][\A s \in Slots :
          /\ (/\ ResumeStep(s) /\ slots[s].op \in AuthOps
              /\ slots[s].pc = "replied" /\ slots[s].ok /\ ~slots'[s].err)
             => /\ token' = slots[s].body[1].token
                /\ token' # NoToken
                /\ ls'["TOKEN"] = Stored(token')
                /\ ls'["USER"] = Stored(slots[s].body[1].user)
                /\ slots'[s].st = "resolved"
                /\ slots'[s].ret = <<slots[s].body[1].user>>
          /\ (CallStep(s) /\ slots'[s].op = "getMe" /\ ~online)
             => /\ slots'[s].pc = "done" /\ slots'[s].st = "resolved"
                /\ slots'[s].ret = localUser(ls)
                /\ ls' = ls]_vars

\* user b has registered, getMe called offline has returned the profile of b
C13_Witness ==
    \E s \in Slots :
        /\ token = 2 /\ ~online
        /\ Len(db.users) = 2 /\ db.users[2].email = "b@x"
        /\ ls["TOKEN"] = Stored(2)
        /\ slots[s].op = "getMe" /\ slots[s].pc = "done" /\ ~slots[s].net
        /\ slots[s].ret = <<userSafe(db.users[2])>>

(***************************************************************************)
(* Community.                                                              *)
(***************************************************************************)
\* the local community mirror
CommunityMirror(store) == getLocal(store, "COMMUNITY", <<>>)

\* the step ends getCommunityItems in slot s without data from the server:
\* called offline, or the fetch rejected (network error, abort by timeout),
\* or the response has a non-success status
EndsWithoutRemoteData(s) ==
    /\ slots'[s].op = "getCommunityItems" /\ slots'[s].pc = "done"
    /\ \/ CallStep(s)
       \/ ResumeStep(s) /\ (slots'[s].err \/ ~slots[s].ok)

\* C14: getCommunityItems that gets no data from the server while the local
\* community mirror is empty returns the three seed items (ids seed-1,
\* seed-2, seed-3 with downloads 124, 45, 89) and stores them as the mirror.
C14_SeedsWhenEmpty ==
    [][\A s \in Slots :
          (EndsWithoutRemoteData(s) /\ Len(CommunityMirror(ls)) = 0)
          => /\ slots'[s].st = "resolved"
             /\ Len(slots'[s].ret) = 3
             /\ [k \in 1 .. 3 |-> slots'[s].ret[k].id] = <<"seed-1", "seed-2", "seed-3">>
             /\ [k \in 1 .. 3 |-> slots'[s].ret[k].downloads] = <<124, 45, 89>>
             /\ ls'["COMMUNITY"] = Stored(slots'[s].ret)]_vars

\* the fetch was aborted or lost, the seeds are returned and stored
C14_Witness ==
    \E s \in Slots :
        /\ slots[s].op = "getCommunityItems" /\ slots[s].pc = "done"
        /\ slots[s].net /\ slots[s].err
        /\ Len(slots[s].ret) = 3 /\ slots[s].ret[1].id = "seed-1"
        /\ ls["COMMUNITY"] = Stored(slots[s].ret)

\* no two elements of l have the same id
UniqueIds(l) == \A j, k \in 1 .. Len(l) : l[j].id = l[k].id => j = k

\* C15: neither the server's community store nor the local community mirror
\* ever holds two items with the same id, and a publish resolves.
C15_PublishNoDuplicate ==
    /\ UniqueIds(db.community)
    /\ UniqueIds(CommunityMirror(ls))
    /\ \A s \in Slots :
          (slots[s].op = "shareToCommunity" /\ slots[s].pc = "done")
          => slots[s].st = "resolved"

\* an item has been published with an id the server store and the mirror
\* hold already, with another payload: the stored items are the old ones
C15_Witness ==
    \E s \in Slots :
        /\ slots[s].op = "shareToCommunity" /\ slots[s].pc = "done"
        /\ slots[s].net /\ slots[s].ok
        /\ \E k \in 1 .. Len(db.community) :
              /\ db.community[k].id = slots[s].arg[1].id
              /\ db.community[k].val # slots[s].arg[1].val
        /\ \E k \in 1 .. Len(CommunityMirror(ls)) :
              /\ CommunityMirror(ls)[k].id = slots[s].arg[1].id
              /\ CommunityMirror(ls)[k].val # slots[s].arg[1].val

\* the items of l with the id of x that differ from x in another field than
\* the download counter, or hold a larger counter
Regressed(l, x) ==
    {k \in 1 .. Len(l) :
        /\ l[k].id = x.id
        /\ \/ l[k].downloads > x.downloads
           \/ [l[k] EXCEPT !.downloads = 0] # [x EXCEPT !.downloads = 0]}

\* C16: in the server store and in the local community mirror no step lowers
\* the download counter of an item or changes another field of it.
C16_DownloadsMonotone ==
    [][/\ \A k \in 1 .. Len(db'.community) :
             Regressed(db.community, db'.community[k]) = {}
       /\ \A k \in 1 .. Len(CommunityMirror(ls')) :
             Regressed(CommunityMirror(ls), CommunityMirror(ls')[k]) = {}]_vars

\* the step is the call of incrementDownload in slot s with an id the local
\* community mirror does not hold
UnknownIdCall(s) ==
    /\ CallStep(s) /\ slots'[s].op = "incrementDownload"
    /\ FindIndex(CommunityMirror(ls), slots'[s].arg[1]) = 0

\* C17: incrementDownload with an id the local community mirror does not hold
\* leaves the Local Store as it is, at its call and when its fetch settles,
\* and resolves whatever the server answers.
C17_UnknownIdNoOp ==
    [][\A s \in Slots :
          /\ UnknownIdCall(s)
             => /\ ls' = ls
                /\ slots'[s].st \in {"pending", "resolved"}
          /\ (ResumeStep(s) /\ slots[s].op = "incrementDownload")
             => /\ ls' = ls
                /\ slots'[s].st = "resolved"]_vars

\* the server has answered 404 to the increment of an unknown id
C17_Witness ==
    \E s \in Slots :
        /\ slots[s].op = "incrementDownload" /\ slots[s].pc = "done"
        /\ slots[s].arg[1] = "none"
        /\ slots[s].net /\ ~slots[s].ok /\ ~slots[s].err
        /\ slots[s].st = "resolved"
        /\ ls["COMMUNITY"] = Stored(dbSeed)

(***************************************************************************)
(* Stats.                                                                  *)
(***************************************************************************)
\* record new has every field of record old that the update does not
\* mention, with its old value
KeepsOtherFields(old, update, new) ==
    \A f \in DOMAIN old \ DOMAIN update : f \in DOMAIN new /\ new[f] = old[f]

\* C18: syncStats(partial) keeps every field of the previous record that
\* partial does not mention, in the server's record of the caller (when the
\* request is handled) and in the local stats mirror (at the local write).
C18_StatsMerged ==
    [][\A s \in Slots :
          /\ (/\ slots[s].op = "syncStats" /\ slots[s].pc = "sent"
              /\ slots'[s].pc = "replied" /\ slots'[s].ok
              /\ FindStats(db.stats, slots[s].hdr) # 0)
             => KeepsOtherFields(db.stats[FindStats(db.stats, slots[s].hdr)],
                                 slots[s].arg[1],
                                 db'.stats[FindStats(db.stats, slots[s].hdr)])
          /\ (/\ CallStep(s) \/ ResumeStep(s)
              /\ slots'[s].op = "syncStats" /\ slots'[s].pc = "done"
              /\ ls["STATS"].st = "ok")
             => /\ ls'["STATS"].st = "ok"
                /\ KeepsOtherFields(ls["STATS"].v, slots'[s].arg[1],
                                    ls'["STATS"].v)]_vars

(***************************************************************************)
(* Ownership.                                                              *)
(***************************************************************************)
\* the records of database d that belong to user u, in their order
OwnedBy(d, u) ==
    [decks |-> FilterOwner(d.decks, u), notes |-> FilterOwner(d.notes, u),
     tests |-> FilterOwner(d.tests, u), stats |-> FilterOwner(d.stats, u),
     chat_sessions |-> FilterOwner(d.chat_sessions, u)]

\* the server handles the request of call s
HandledStep(s) == slots[s].pc = "sent" /\ slots'[s].pc = "replied"

MirrorReadOp(k) == IF k = "DECKS" THEN "getDecks" ELSE "getNotes"

MirrorWriteOps(k) ==
    IF k = "DECKS" THEN {"createDeck", "updateDeck", "deleteDeck"}
    ELSE {"saveNote", "deleteNote"}

\* the id a write method is called with
WrittenId(o, arg) == IF o \in DeleteOps THEN arg[1] ELSE arg[1].id

\* the call in slot s stores the response of its successful read
ReadStoredStep(s, k) ==
    /\ slots[s].op = MirrorReadOp(k)
    /\ slots[s].pc = "replied" /\ slots[s].ok
    /\ slots'[s].pc = "done" /\ ~slots'[s].err

\* the call in slot s runs its local write
MirrorWriteStep(s, k) ==
    /\ CallStep(s) \/ ResumeStep(s)
    /\ slots'[s].pc = "done"
    /\ slots'[s].op \in MirrorWriteOps(k)

\* C20: the mirror of decks (likewise notes) is the response of the last
\* read that was stored, changed by the local writes of the upserts and
\* deletes made since, one after the other.  Step by step: a read that
\* stores its response leaves the mirror equal to the response, so that no
\* item the response does not have is left; the local write of an upsert or
\* delete changes the item with the id of the call and nothing else (a
\* delete leaves no item with the id, createDeck and saveNote leave the
\* item of the call in the mirror); no other step changes the mirror.
C20_MirrorIsReadPlusWrites ==
    [][\A k \in {"DECKS", "NOTES"} :
          LET old == getLocal(ls, k, <<>>)
              new == getLocal(ls', k, <<>>)
          IN /\ \A s \in Slots :
                   ReadStoredStep(s, k)
                   => /\ ls'[k].st = "ok"
                      /\ new = slots[s].body
                      /\ \A j \in 1 .. Len(old) :
                            FindIndex(slots[s].body, old[j].id) = 0
                            => FindIndex(new, old[j].id) = 0
             /\ \A s \in Slots :
                   MirrorWriteStep(s, k)
                   => LET o == slots'[s].op
                          id == WrittenId(o, slots'[s].arg)
                      IN /\ FilterOut(new, id) = FilterOut(old, id)
                         /\ o \in DeleteOps => FindIndex(new, id) = 0
                         /\ o \in {"createDeck", "saveNote"}
                            => \E j \in 1 .. Len(new) : new[j] = slots'[s].arg[1]
                         /\ o = "updateDeck"
                            => IF FindIndex(old, id) = 0 THEN ls'[k] = ls[k]
                               ELSE new = [old EXCEPT ![FindIndex(old, id)] =
                                                         slots'[s].arg[1]]
             /\ (\A s \in Slots : ~ReadStoredStep(s, k) /\ ~MirrorWriteStep(s, k))
                => ls'[k] = ls[k]]_vars

\* getNotes of the user with cached data has stored the server's notes: the
\* note saved offline before the read (id 2) is not in the mirror any more
C20_Witness ==
    \E s \in Slots :
       /\ slots[s].op = "getNotes" /\ slots[s].pc = "done"
       /\ slots[s].net /\ ~slots[s].err
       /\ slots[s].ret = SortDesc(FilterOwner(db.notes, 1))
       /\ slots[s].ret # <<>>
       /\ ls["NOTES"].st = "ok" /\ ls["NOTES"].v = slots[s].ret
       /\ FindIndex(getLocal(CachedStore, "NOTES", <<>>), 2) # 0
       /\ FindIndex(ls["NOTES"].v, 2) = 0

(***************************************************************************)
(* Deletes and the local mirror.                                           *)
(***************************************************************************)
\* the Local Store slot a delete method writes
DeleteKey(o) ==
    CASE o = "deleteDeck" -> "DECKS"
      [] o = "deleteNote" -> "NOTES"
      [] o = "deleteTest" -> "TESTS"

\* C21: when deleteDeck, deleteNote or deleteTest completes, offline, without
\* a credential, or after its remote delete has answered anything or failed,
\* its mirror holds no item with the id of the call and holds every other
\* item it held, in the order it had; the other slots are as they were and
\* the method resolves.
C21_DeleteRemovesLocally ==
    [][\A s \in Slots :
          DeleteWriteStep(s)
          => LET k == DeleteKey(slots'[s].op)
                 id == slots'[s].arg[1]
                 old == getLocal(ls, k, <<>>)
             IN /\ ls'[k].st = "ok"
                /\ \A j \in 1 .. Len(ls'[k].v) : ls'[k].v[j].id # id
                /\ ls'[k].v = SelectSeq(old, LAMBDA x : x.id # id)
                /\ \A q \in KEYS \ {k} : ls'[q] = ls[q]
                /\ slots'[s].st = "resolved"]_vars

\* deleteDeck of deck 1 has completed after its remote delete was lost: deck
\* 1 is still on the server and gone from the mirror, deck 2 is in the mirror
C21_Witness ==
    \E s \in Slots :
       /\ slots[s].op = "deleteDeck" /\ slots[s].pc = "done"
       /\ slots[s].net /\ slots[s].err /\ slots[s].arg[1] = 1
       /\ FindOwned(db.decks, 1, 1) # 0
       /\ FindIndex(getLocal(ls, "DECKS", <<>>), 1) = 0
       /\ FindIndex(getLocal(ls, "DECKS", <<>>), 2) # 0

(***************************************************************************)
(* Preferences.                                                            *)
(***************************************************************************)
PrefFields == {"themeMode", "colorScheme", "enableSeasonal"}

\* the step is the server's answer to, or the loss of, the request of slot s
PushSettles(s) ==
    /\ slots[s].op = "savePreferences"
    /\ slots[s].pc \in {"sent", "replied"}
    /\ slots'[s].pc \in {"replied", "done"}
    /\ slots'[s].pc # slots[s].pc

\* C22: the call of savePreferences writes the three fields into the Local
\* Store profile and keeps the profile's other fields, on every path (with a
\* push, offline, without a credential), and the method has resolved in that
\* same step, while its push, if any, is still in flight; the handling of the
\* push, its loss and its settling leave the Local Store as it is.
C22_PreferencesAppliedLocally ==
    [][\A s \in Slots :
          /\ (CallStep(s) /\ slots'[s].op = "savePreferences")
             => LET p == slots'[s].arg[1]
                    old == getLocal(ls, "USER", <<>>)
                IN /\ ls'["USER"].st = "ok"
                   /\ \A f \in PrefFields : ls'["USER"].v[f] = p[f]
                   /\ DOMAIN ls'["USER"].v = DOMAIN old \cup PrefFields
                   /\ \A f \in DOMAIN old \ PrefFields : ls'["USER"].v[f] = old[f]
                   /\ \A q \in KEYS \ {"USER"} : ls'[q] = ls[q]
                   /\ slots'[s].st = "resolved"
                   /\ slots'[s].net = (token # NoToken /\ online)
                   /\ slots'[s].net => slots'[s].pc = "sent"
          /\ PushSettles(s) => ls' = ls]_vars

\* the push of the light preferences has failed: the server has the user's
\* old preferences, the Local Store profile has the new ones and its email
C22_Witness ==
    \E s \in Slots :
       /\ slots[s].op = "savePreferences" /\ slots[s].pc = "done"
       /\ slots[s].net /\ slots[s].err
       /\ slots[s].arg[1].themeMode = "light"
       /\ ls["USER"].st = "ok"
       /\ ls["USER"].v.themeMode = "light" /\ ls["USER"].v.colorScheme = "ocean"
       /\ ls["USER"].v.email = "a@x"
       /\ db.users[1].themeMode = "dark"

(***************************************************************************)
(* Termination and cancellation.                                           *)
(***************************************************************************)
\* the call in slot s has issued a fetch that has not settled for the method
InFlight(s) == slots[s].net /\ slots[s].pc \in {"sent", "replied"}

\* what _localGetCommunity returns on a store
LocalCommunityResult(store, t) ==
    IF Len(CommunityMirror(store)) = 0 THEN seeds(t) ELSE CommunityMirror(store)

\* C23 as stated, its last part: a method other than getCommunityItems that
\* has issued a fetch has not completed while the fetch is in flight.
C23_CompletesAfterRemote ==
    \A s \in Slots :
       (InFlight(s) /\ slots[s].op # "getCommunityItems") => slots[s].st = "pending"

\* C23, amended: getCommunityItems always terminates, resolved; when its
\* fetch rejects, by the timeout as by a network failure, before an answer or
\* after it, it returns the local mirror, or the seeds if the mirror is
\* empty; and no method other than savePreferences, which does not wait for
\* its push, has completed while its fetch is in flight.
C23_CommunityReadTerminates ==
    /\ \A s \in Slots :
          (slots[s].op = "getCommunityItems" /\ slots[s].pc # "done")
          ~> (/\ slots[s].op = "getCommunityItems" /\ slots[s].pc = "done"
              /\ slots[s].st = "resolved")
    /\ [][\A s \in Slots :
             (/\ slots[s].op = "getCommunityItems" /\ ResumeStep(s)
              /\ slots'[s].err)
             => /\ slots'[s].st = "resolved"
                /\ slots'[s].ret = LocalCommunityResult(ls, now)
                /\ CommunityMirror(ls') = slots'[s].ret
                /\ \A q \in KEYS \ {"COMMUNITY"} : ls'[q] = ls[q]]_vars
    /\ [](\A s \in Slots :
             (InFlight(s) /\ slots[s].op # "savePreferences")
             => slots[s].st = "pending")

\* the request of getCommunityItems never got an answer; the method has
\* resolved with the mirror the server's items were stored in before
C23_Witness ==
    \E s \in Slots :
       /\ slots[s].op = "getCommunityItems" /\ slots[s].pc = "done"
       /\ slots[s].net /\ slots[s].err /\ ~slots[s].ok
       /\ slots[s].st = "resolved"
       /\ slots[s].ret = dbSeed
       /\ CommunityMirror(ls) = dbSeed

(***************************************************************************)
(* Damaged Local Store slots.                                              *)
(***************************************************************************)
\* the slot does not hold a list the program wrote
Damaged(slot) == slot \in DamagedSlots

\* the call in slot s ends a read of the decks with what the slot holds
DecksReadLocally(s) ==
    /\ slots'[s].op = "getDecks" /\ slots'[s].pc = "done"
    /\ \/ CallStep(s)
       \/ ResumeStep(s) /\ (slots'[s].err \/ ~slots[s].ok)

\* the step is as C24 wants it on a decks slot that is damaged: a read that
\* ends with what the slot holds returns the empty list, createDeck,
\* updateDeck and deleteDeck resolve, and createDeck and deleteDeck leave a
\* list in the slot (updateDeck writes only when it finds the id)
TreatedAsEmpty(s) ==
    /\ DecksReadLocally(s)
       => slots'[s].st = "resolved" /\ slots'[s].ret = <<>>
    /\ MirrorWriteStep(s, "DECKS")
       => /\ slots'[s].st = "resolved"
          /\ slots'[s].op # "updateDeck" => ~Damaged(ls'["DECKS"])

\* C24: a damaged value in the decks slot is treated as the empty list.
C24_CorruptIsDefault ==
    [][\A s \in Slots : Damaged(ls["DECKS"]) => TreatedAsEmpty(s)]_vars

\* the same for a text that does not parse alone
UnparseableIsDefault ==
    [][\A s \in Slots : ls["DECKS"] = Garbled => TreatedAsEmpty(s)]_vars

(***************************************************************************)
(* The credential in memory and in the Local Store.                        *)
(***************************************************************************)
\* C25: in every state isAuthenticated() is true exactly when the token slot
\* of the Local Store holds a credential, and the credential in memory is the
\* one the slot holds: there is one credential or none.
C25_CredentialAgrees ==
    /\ isAuthenticated <=> ls["TOKEN"].st = "ok"
    /\ isAuthenticated => ls["TOKEN"].v = token
    /\ ~isAuthenticated => ls["TOKEN"] = Absent

\* logout ran while a login was in flight, and the login has succeeded since:
\* the credential is in memory and in the slot
C25_Witness ==
    \E s, r \in Slots :
       /\ slots[s].op = "login" /\ slots[s].pc = "done" /\ slots[s].st = "resolved"
       /\ slots[r].op = "logout" /\ slots[r].pc = "done"
       /\ isAuthenticated
       /\ ls["TOKEN"] = Stored(token)

(***************************************************************************)
(* Failed authentication.                                                  *)
(***************************************************************************)
\* the step belongs to the login or register in slot s and is not the one in
\* which the method stores a successful response: the call, the handling of
\* the request, its loss, the rejection of the method
FruitlessAuthStep(s) ==
    \/ CallStep(s) /\ slots'[s].op \in AuthOps
    \/ /\ slots[s].op \in AuthOps /\ slots[s].pc # "done"
       /\ slots'[s].pc # slots[s].pc
       /\ slots'[s].pc = "done" => slots'[s].st = "rejected"

\* C26: a login or register that fails, by the offline rejection, by a
\* non-success status or by a network error, changes neither the credential
\* in memory nor the persisted credential and profile, at no step from its
\* call to its rejection.
C26_FailedAuthChangesNothing ==
    [][\A s \in Slots :
          FruitlessAuthStep(s)
          => /\ token' = token
             /\ ls'["TOKEN"] = ls["TOKEN"]
             /\ ls'["USER"] = ls["USER"]]_vars

\* a login with a wrong password has been rejected by the status of the
\* response: the first user is signed in as before
C26_Witness ==
    \E s \in Slots :
       /\ slots[s].op = "login" /\ slots[s].pc = "done"
       /\ slots[s].st = "rejected" /\ slots[s].net /\ ~slots[s].err
       /\ slots[s].arg[2] = "bad"
       /\ token = 1
       /\ ls["TOKEN"] = CachedStore["TOKEN"] /\ ls["USER"] = CachedStore["USER"]

(***************************************************************************)
(* Logout and the calls in flight.                                         *)
(***************************************************************************)
\* logout is the last method that was called, in slot r, and the call in slot
\* s was in flight when it ran and still is.  (A call starts in the lowest
\* free slot: had s started after the logout, it would have taken slot r.)
InFlightAcrossLogout(s, r) ==
    /\ r # s
    /\ slots[r].op = "logout"
    /\ slots[s].pc # "done"

\* C27: while logout is the last method called the session holds no
\* credential, and a login, register or read that was in flight when logout
\* ran leaves the credential, the persisted profile and the domain mirrors
\* as they are when it resumes.
C27_LogoutIsFinal ==
    [][\A s, r \in Slots :
          /\ slots'[r].op = "logout"
             => token' = NoToken /\ ls'["TOKEN"] = Absent
          /\ (InFlightAcrossLogout(s, r) /\ ResumeStep(s))
             => /\ token' = token
                /\ ls'["TOKEN"] = ls["TOKEN"]
                /\ ls'["USER"] = ls["USER"]
                /\ \A k \in DomainKeys : ls'[k] = ls[k]]_vars

(***************************************************************************)
(* The deck mirror and the server in sequential runs.                      *)
(***************************************************************************)
\* the ids of the items of a list
IdSet(l) == {l[k].id : k \in 1 .. Len(l)}

\* no call is in flight
Quiet == \A s \in Slots : slots[s].pc = "done"

\* C28: in a sequential run of createDeck, updateDeck and deleteDeck that
\* starts right after a successful getDecks, with the credential, online and
\* every request answered, the ids of the decks in the local mirror are the
\* ids of the user's decks on the server whenever a call has completed.
C28_MirrorIdsAreServerIds ==
    Quiet => IdSet(getLocal(ls, "DECKS", <<>>)) = IdSet(FilterOwner(db.decks, token))

\* three calls have completed, the last a deleteDeck the server has done:
\* deck 3 was created and deck 1 deleted, here and there
C28_Witness ==
    /\ Quiet /\ budget = 0
    /\ \E s \in Slots :
          /\ slots[s].op = "deleteDeck" /\ slots[s].net /\ slots[s].ok
          /\ slots[s].arg[1] = 1
    /\ IdSet(getLocal(ls, "DECKS", <<>>)) = {2, 3}
    /\ IdSet(FilterOwner(db.decks, token)) = {2, 3}

====
